---- MODULE Spec2Model ----
(***************************************************************************)
(* Conversation orchestration engine of the DSA module-planning chatbot    *)
(* (src/app/chat_graph.py): ChatService with its LangGraph state machine   *)
(* router -> retrieve_requirements -> assistant <-> tools, the history     *)
(* helpers _trim and _condense_history, and the operations ask, reset,     *)
(* configure and evaluate, and the /api/chat and /api/reset endpoints of    *)
(* src/app/backend.py that drive the shared instance.                      *)
(*                                                                         *)
(* Text is a sequence of one-character strings so that strip(), emptiness  *)
(* and the "Context: ... User: ..." prefixing are computed, not assumed.   *)
(* The language model, the retrieval index and the tools are external:     *)
(* their replies are nondeterministic choices from small sets.             *)
(***************************************************************************)
EXTENDS Integers, Sequences, FiniteSets, TLC

\* ------------------------------------------------------------------ bounds
\* largest max_history a ChatService is constructed with in the model
MaxHistoryBound == 2
\* most tool rounds the language model asks for in one turn (the code has
\* no cap: the guard below only keeps the model finite)
MaxRounds == 1
\* most calls of ask, reset, configure and evaluate in one behaviour
MaxCalls == 2
\* most network requests the session of the NUSMods client makes
MaxRequests == 2

\* ------------------------------------------------------------------- text
\* str.strip(): drop leading and trailing whitespace
RECURSIVE LStrip(_)
LStrip(s) ==
    IF s = <<>> THEN <<>>
    ELSE IF Head(s) = " " THEN LStrip(Tail(s)) ELSE s

RECURSIVE RStrip(_)
RStrip(s) ==
    IF s = <<>> THEN <<>>
    ELSE IF s[Len(s)] = " " THEN RStrip(SubSeq(s, 1, Len(s) - 1)) ELSE s

Strip(s) == RStrip(LStrip(s))

\* Optional[...] arguments: None is the empty tuple, a value v is <<v>>
None == <<>>
Some(v) == <<v>>

\* ------------------------------------------------------------ the messages
HumanMessage(c) ==
    [role |-> "user", content |-> c, tool_calls |-> <<>>, tool_call_id |-> 0]

AIMessage(c, calls) ==
    [role |-> "assistant", content |-> c, tool_calls |-> calls, tool_call_id |-> 0]

ToolMessage(c, id) ==
    [role |-> "tool", content |-> c, tool_calls |-> <<>>, tool_call_id |-> id]

SystemMessage(c) ==
    [role |-> "system", content |-> c, tool_calls |-> <<>>, tool_call_id |-> 0]

DEFAULT_SYSTEM_PROMPT_TEMPLATE == <<"S">>

_build_system_message(template) == SystemMessage(template)

\* --------------------------------------------------------- history manager
\* all sequences over alphabet of length at most n
SeqsUpTo(alphabet, n) == UNION { [1..k -> alphabet] : k \in 0..n }

\* a variant of _trim that keeps one message more than the limit
_trim_keeps_one_more(seq, max_history) ==
    LET max_messages == max_history * 2 + 1
    IN  IF Len(seq) <= max_messages THEN seq
        ELSE SubSeq(seq, Len(seq) - max_messages + 1, Len(seq))

\* a variant of _trim that keeps the oldest messages
_trim_keeps_oldest(seq, max_history) ==
    LET max_messages == max_history * 2
    IN  IF max_messages <= 0 THEN <<>>
        ELSE IF Len(seq) <= max_messages THEN seq
        ELSE SubSeq(seq, 1, max_messages)

\* _trim: the last 2*max_history messages, nothing when that is <= 0
_trim(seq, max_history) ==
    LET max_messages == max_history * 2
    IN  IF max_messages <= 0 THEN <<>>
        ELSE IF Len(seq) <= max_messages THEN seq
        ELSE SubSeq(seq, Len(seq) - max_messages + 1, Len(seq))

\* the loop of _condense_history: acc is [condensed, pending_human], where
\* pending_human is None or <<message>>
RECURSIVE CondenseLoop(_, _)
CondenseLoop(msgs, acc) ==
    IF msgs = <<>> THEN acc
    ELSE
        LET message == Head(msgs)
            next ==
                IF message.role = "user"
                THEN [acc EXCEPT !.pending_human = Some(HumanMessage(message.content))]
                ELSE IF message.role = "assistant"
                THEN LET ai_message == AIMessage(message.content, <<>>)
                     IN  IF acc.pending_human # None
                         THEN [condensed |-> acc.condensed \o acc.pending_human \o <<ai_message>>,
                               pending_human |-> None]
                         ELSE [acc EXCEPT !.condensed = acc.condensed \o <<ai_message>>]
                ELSE acc
        IN  CondenseLoop(Tail(msgs), next)

\* a variant of _condense_history that trims without condensing
_condense_history_only_trims(msgs, max_history) == _trim(msgs, max_history)

\* a variant of _condense_history whose loop starts at the second message
_condense_history_skips_first(msgs, max_history) ==
    LET done == CondenseLoop(IF msgs = <<>> THEN <<>> ELSE Tail(msgs),
                             [condensed |-> <<>>, pending_human |-> None])
    IN  _trim(done.condensed \o done.pending_human, max_history)

\* _condense_history: the loop, the pending prompt if any, then _trim
_condense_history(msgs, max_history) ==
    LET done == CondenseLoop(msgs, [condensed |-> <<>>, pending_human |-> None])
    IN  _trim(done.condensed \o done.pending_human, max_history)

\* ------------------------------------------------------- retrieval helpers
\* "\n\n".join(parts); the separator is the one character "|"
RECURSIVE Join(_)
Join(parts) ==
    IF parts = <<>> THEN <<>>
    ELSE IF Len(parts) = 1 THEN parts[1]
    ELSE parts[1] \o <<"|">> \o Join(Tail(parts))

RECURSIVE NonEmptyStripped(_)
NonEmptyStripped(documents) ==
    IF documents = <<>> THEN <<>>
    ELSE LET part == Strip(Head(documents))
         IN  (IF part # <<>> THEN <<part>> ELSE <<>>) \o NonEmptyStripped(Tail(documents))

\* combine_context: the stripped, non-empty page contents joined; a document
\* is its page_content, and None and [] are both the empty sequence
combine_context(documents) ==
    IF documents = <<>> THEN <<>> ELSE Join(NonEmptyStripped(documents))

\* what the retrieval index may return for a query (retriever.invoke)
IndexResults == { <<>>, << <<" ">>, <<"d", " ">> >> }

\* f"Context:\n{context}\n\nUser: {last_user.content}"
Augmented(context, content) == <<"Context:">> \o context \o <<"User:">> \o content

\* ------------------------------------------ replies of the external model
\* str.lower() on the words the router looks at
Lower(s) == [i \in DOMAIN s |-> IF s[i] = "Retrieve" THEN "retrieve" ELSE s[i]]

\* replies of the router model call: json is "object" when json.loads gives
\* a dict (decision and query are its values), "other" when it gives a
\* non-dict value (parsed.get raises AttributeError), "invalid" when it
\* raises JSONDecodeError; raw is the reply text
RouterReplies ==
    { [json |-> "object", decision |-> <<"retrieve">>, query |-> <<"k">>, raw |-> <<"{", "retrieve", "}">>],
      [json |-> "object", decision |-> <<" ", "Retrieve">>, query |-> <<" ">>, raw |-> <<"{", "Retrieve", "}">>],
      [json |-> "object", decision |-> <<"proceed">>, query |-> <<>>, raw |-> <<"{", "proceed", "}">>],
      [json |-> "object", decision |-> <<"proceed">>, query |-> <<"retrieve">>, raw |-> <<"{", "proceed", "retrieve", "}">>],
      [json |-> "other", decision |-> <<>>, query |-> <<>>, raw |-> <<"Retrieve">>],
      [json |-> "other", decision |-> <<>>, query |-> <<>>, raw |-> <<"proceed">>],
      [json |-> "invalid", decision |-> <<>>, query |-> <<>>, raw |-> <<"please", "retrieve", "more">>],
      [json |-> "invalid", decision |-> <<>>, query |-> <<>>, raw |-> <<"ok">>] }

\* a variant of router_node whose fallback looks for "retrieve" without
\* lowering the reply
RouterParse_case_sensitive(router_reply) ==
    IF router_reply.json = "object"
    THEN [router_decision |->
              IF Lower(Strip(router_reply.decision)) = <<"retrieve">>
              THEN "retrieve_requirements" ELSE "assistant",
          router_query |->
              IF Strip(router_reply.query) # <<>>
              THEN Some(Strip(router_reply.query)) ELSE None]
    ELSE LET decision_value == Strip(router_reply.raw)
         IN  [router_decision |->
                  IF \E i \in DOMAIN decision_value : decision_value[i] = "retrieve"
                  THEN "retrieve_requirements" ELSE "assistant",
              router_query |-> None]

\* lines 328-341 of router_node: the decision and the query from a reply
RouterParse(router_reply) ==
    IF router_reply.json = "object"
    THEN [router_decision |->
              IF Lower(Strip(router_reply.decision)) = <<"retrieve">>
              THEN "retrieve_requirements" ELSE "assistant",
          router_query |->
              IF Strip(router_reply.query) # <<>>
              THEN Some(Strip(router_reply.query)) ELSE None]
    ELSE LET decision_value == Lower(Strip(router_reply.raw))
         IN  [router_decision |->
                  IF \E i \in DOMAIN decision_value : decision_value[i] = "retrieve"
                  THEN "retrieve_requirements" ELSE "assistant",
              router_query |-> None]

\* the replies llm_with_tools.invoke may give: a final reply with empty,
\* blank or real text, or an argument-only tool-planning reply whose
\* tool_calls name the tools in the order requested
AnswerTexts == { <<>>, <<" ">>, <<"a">> }
PlanningTexts == { <<>> }
ToolCallLists == { <<"t1", "t2">> }
ModelReplies ==
    { AIMessage(content, <<>>) : content \in AnswerTexts }
    \cup { AIMessage(content, calls) : content \in PlanningTexts, calls \in ToolCallLists }

\* a variant of tools_condition that always ends the turn
tools_condition_never_loops(messages) == "finish"

\* tools_condition: "tools" when the last message carries tool calls, else END
tools_condition(messages) ==
    IF messages # <<>> /\ messages[Len(messages)].role = "assistant"
       /\ messages[Len(messages)].tool_calls # <<>>
    THEN "tools" ELSE "finish"

\* what the call of a tool comes to: its function returns, or it raises
ToolOutcomes == { "ok", "error" }

\* the text of a tool result: the tool's output (its name stands for it),
\* or for a tool that raised the error description the ToolNode formats
\* ("Error: ..." followed by the exception)
ToolResultText(tool, outcome) ==
    IF outcome = "ok" THEN <<tool>> ELSE <<"Error:", tool>>

\* a variant of the ToolNode that appends the results in reverse call order
ToolResults_reversed(calls, outcomes) ==
    [k \in 1..Len(calls) |->
        ToolMessage(ToolResultText(calls[Len(calls) + 1 - k], outcomes[Len(calls) + 1 - k]),
                    Len(calls) + 1 - k)]

\* a variant of the ToolNode that has no result for a tool that raised
RECURSIVE ToolResults_drops_failed(_, _)
ToolResults_drops_failed(calls, outcomes) ==
    IF calls = <<>> THEN <<>>
    ELSE LET n == Len(calls)
             rest == ToolResults_drops_failed(SubSeq(calls, 1, n - 1),
                                              SubSeq(outcomes, 1, n - 1))
         IN  IF outcomes[n] = "ok"
             THEN Append(rest, ToolMessage(ToolResultText(calls[n], "ok"), n))
             ELSE rest

\* ToolNode(API_TOOLS) with its default error handling: one ToolMessage per
\* call of the last message, in call order, the call id being its position;
\* an exception of a tool function is caught and becomes the text of that
\* call's ToolMessage
ToolResults(calls, outcomes) ==
    [k \in 1..Len(calls) |-> ToolMessage(ToolResultText(calls[k], outcomes[k]), k)]

\* ------------------------------------------------------------------ grader
EXPECTED_SCORE_KEYS == <<"accuracy", "relevance", "coherence">>
\* the key names in the order sorted() gives them
SortedKeys == <<"accuracy", "coherence", "relevance">>

\* str.lower() on the key names the judge writes
LowerKey(key) == IF key = "Accuracy" THEN "accuracy" ELSE key

\* the values a judge reply gives a key: numbers are kept in hundredths;
\* Word is a string that is no number ("high"), BigInt an integer literal
\* beyond the range of float, NaN the literal json.loads accepts
Number(h) == [kind |-> "number", v |-> h]
NumericString(h) == [kind |-> "string", v |-> h]
Word == [kind |-> "word", v |-> 0]
Null == [kind |-> "null", v |-> 0]
True == [kind |-> "bool", v |-> 100]
List == [kind |-> "list", v |-> 0]
NaN == [kind |-> "nan", v |-> 0]
BigInt == [kind |-> "bigint", v |-> 0]

\* float(value): the exception it raises, or the number (nan apart)
Float(value) ==
    CASE value.kind \in {"number", "string", "bool"} ->
             [exc |-> None, nan |-> FALSE, v |-> value.v]
      [] value.kind = "nan" -> [exc |-> None, nan |-> TRUE, v |-> 0]
      [] value.kind = "word" -> [exc |-> Some("ValueError"), nan |-> FALSE, v |-> 0]
      [] value.kind = "bigint" -> [exc |-> Some("OverflowError"), nan |-> FALSE, v |-> 0]
      [] OTHER -> [exc |-> Some("TypeError"), nan |-> FALSE, v |-> 0]

\* the decimals d.d5 below 3 whose double lies above them, and 0.75, the
\* exact tie that round() takes to the even 0.8: round(x, 1) goes up
TiesRoundedUp == { 5, 45, 55, 65, 75, 105, 135, 155, 175, 185, 235, 245, 275, 285, 295 }

\* round(x, 1) for x >= 0 in hundredths
RoundAbs(a) ==
    LET r == a % 10
        low == a - r
    IN  IF r < 5 THEN low
        ELSE IF r > 5 THEN low + 10
        ELSE IF a \in TiesRoundedUp THEN low + 10 ELSE low

\* round(x, 1), in hundredths
Round1(h) == IF h < 0 THEN 0 - RoundAbs(0 - h) ELSE RoundAbs(h)

Min(a, b) == IF a <= b THEN a ELSE b
Max(a, b) == IF a >= b THEN a ELSE b

\* a variant of the score computation that clamps without rounding
Score_unrounded(number) ==
    IF number.nan THEN 100 ELSE Max(0, Min(100, number.v))

\* lines 117 and 121: round(float(value), 1), then max(0.0, min(1.0, .));
\* round keeps nan, and min(1.0, nan) is 1.0
Score(number) ==
    IF number.nan THEN 100 ELSE Max(0, Min(100, Round1(number.v)))

\* dict.get(key) on the pairs of a dict built in order, a later pair
\* replacing an earlier one of the same lowered key
RECURSIVE Lookup(_, _)
Lookup(items, key) ==
    IF items = <<>> THEN None
    ELSE IF LowerKey(items[Len(items)][1]) = key THEN Some(items[Len(items)][2])
    ELSE Lookup(SubSeq(items, 1, Len(items) - 1), key)

\* _extract_json_object on a judge reply: direct is what json.loads of the
\* stripped text gives ("object" a dict, "other" another value, "invalid"
\* JSONDecodeError, as for blank text), span what json.loads of the text
\* from the first "{" to the last "}" gives ("none" without such a span),
\* object the pairs of the dict either parse gives
_extract_json_object(reply) ==
    IF reply.direct = "object" THEN Some(reply.object)
    ELSE IF reply.span = "object" THEN Some(reply.object)
    ELSE None

\* the names of keys, sorted and joined
NamesOf(keys) == SelectSeq(SortedKeys, LAMBDA key : key \in keys)

\* lines 124-133: the error message, in words
ErrorMessage(invalid_keys, missing_keys, scored) ==
    (IF invalid_keys # {} THEN <<"Invalid numeric value for:">> \o NamesOf(invalid_keys)
     ELSE <<>>)
    \o (IF missing_keys # {} THEN <<"Missing scores for:">> \o NamesOf(missing_keys)
        ELSE <<>>)
    \o (IF scored = {} THEN <<"Grader response did not contain usable scores.">>
        ELSE <<>>)

\* a variant of _parse_scores that scores a missing criterion 0.0
_parse_scores_defaults_missing(reply) ==
    LET parsed_json == _extract_json_object(reply)
        from_json == parsed_json # None /\ parsed_json[1] # <<>>
        items == IF from_json THEN parsed_json[1] ELSE reply.matches
        keys == { EXPECTED_SCORE_KEYS[i] : i \in DOMAIN EXPECTED_SCORE_KEYS }
        missing_keys ==
            { key \in keys : \/ Lookup(items, key) = None
                             \/ Lookup(items, key)[1].kind = "null" }
        invalid_keys ==
            { key \in keys \ missing_keys :
                  Float(Lookup(items, key)[1]).exc \in {Some("TypeError"), Some("ValueError")} }
        scored == keys \ invalid_keys
        message == ErrorMessage(invalid_keys, {}, scored)
    IN  [raised |-> \E key \in keys \ missing_keys :
                        Float(Lookup(items, key)[1]).exc = Some("OverflowError"),
         scores |-> [key \in scored |->
                        IF key \in missing_keys THEN 0
                        ELSE Score(Float(Lookup(items, key)[1]))],
         error_message |-> IF message = <<>> THEN None ELSE Some(message),
         parsed_json |-> parsed_json,
         path |-> IF from_json THEN "json" ELSE "regex"]

\* _parse_scores: the raw values come from the parsed object when that is
\* truthy (line 101), else from the matches of SCORE_PATTERN in the text
\* (path says which); a key without a value or with null is missing, one
\* whose float() raises TypeError or ValueError is invalid, the others are
\* scored; another exception of float() leaves the function (raised)
_parse_scores(reply) ==
    LET parsed_json == _extract_json_object(reply)
        from_json == parsed_json # None /\ parsed_json[1] # <<>>
        items == IF from_json THEN parsed_json[1] ELSE reply.matches
        keys == { EXPECTED_SCORE_KEYS[i] : i \in DOMAIN EXPECTED_SCORE_KEYS }
        missing_keys ==
            { key \in keys : \/ Lookup(items, key) = None
                             \/ Lookup(items, key)[1].kind = "null" }
        invalid_keys ==
            { key \in keys \ missing_keys :
                  Float(Lookup(items, key)[1]).exc \in {Some("TypeError"), Some("ValueError")} }
        scored == keys \ (missing_keys \cup invalid_keys)
        message == ErrorMessage(invalid_keys, missing_keys, scored)
    IN  [raised |-> \E key \in keys \ missing_keys :
                        Float(Lookup(items, key)[1]).exc = Some("OverflowError"),
         scores |-> [key \in scored |-> Score(Float(Lookup(items, key)[1]))],
         error_message |-> IF message = <<>> THEN None ELSE Some(message),
         parsed_json |-> parsed_json,
         path |-> IF from_json THEN "json" ELSE "regex"]

\* a variant of the sum that takes one score for the total
SumScores_one_score(scores, keys) ==
    IF keys = {} THEN 0 ELSE scores[CHOOSE k \in keys : TRUE]

\* sum(scores.values())
RECURSIVE SumScores(_, _)
SumScores(scores, keys) ==
    IF keys = {} THEN 0
    ELSE LET key == CHOOSE k \in keys : TRUE
         IN  scores[key] + SumScores(scores, keys \ {key})

\* the judge prompt: the stripped question, the ground truth and the
\* answer, each of the two replaced by a placeholder when blank
GraderPrompt(question, ground_truth, answer) ==
    << Strip(question),
       IF Strip(ground_truth) # <<>> THEN Strip(ground_truth)
       ELSE <<"[ground truth not provided]">>,
       IF Strip(answer) # <<>> THEN Strip(answer) ELSE <<"[no answer provided]">> >>

NoEvaluation == [grader_prompt |-> <<>>, error |-> None, scores |-> None, total |-> None]

\* a variant of grade that lets the exception of the judge call through
grade_unguarded(question, ground_truth, answer, developer_view, judge) ==
    [raised |-> TRUE, evaluation |-> NoEvaluation, developer |-> None]

\* ResponseGrader.grade: judge is what self._llm.invoke comes to, an
\* exception (raises) or a reply; the result is the GradePayload, or the
\* exception that leaves grade (raised); a key of the evaluation dict that
\* is not set is None here
grade(question, ground_truth, answer, developer_view, judge) ==
    LET user_prompt == GraderPrompt(question, ground_truth, answer)
        parsed == _parse_scores(judge.reply)
        scored == DOMAIN parsed.scores
        score_error ==
            IF parsed.error_message # None THEN parsed.error_message
            ELSE IF scored = {}
                 THEN Some(<<"Grader response did not contain usable scores.">>)
                 ELSE None
    IN  IF judge.raises
        THEN [raised |-> FALSE,
              evaluation |-> [NoEvaluation EXCEPT !.grader_prompt = user_prompt,
                                                  !.error = Some(<<"exc">>)],
              developer |->
                  IF developer_view
                  THEN Some([error |-> Some(<<"exc">>), parsed_scores |-> None,
                             parser |-> None])
                  ELSE None]
        ELSE IF parsed.raised
        THEN [raised |-> TRUE, evaluation |-> NoEvaluation, developer |-> None]
        ELSE [raised |-> FALSE,
              evaluation |->
                  [grader_prompt |-> user_prompt,
                   error |-> score_error,
                   scores |-> IF scored # {} THEN Some(parsed.scores) ELSE None,
                   total |-> IF scored # {}
                             THEN Some(Round1(SumScores(parsed.scores, scored)))
                             ELSE None],
              developer |->
                  IF developer_view
                  THEN Some([error |-> None,
                             parsed_scores |-> Some(parsed.scores),
                             parser |-> Some([raw_json |-> parsed.parsed_json,
                                              used_regex_fallback |-> parsed.parsed_json = None,
                                              error |-> parsed.error_message])])
                  ELSE None]

\* the replies of the judge: an object for the whole text, with each
\* criterion absent or given one of the values, and two more with a
\* capitalised and a foreign key
Absent == [kind |-> "absent", v |-> 0]
JudgeValues ==
    { Number(0 - 30), Number(4), Number(25), Number(85), Number(150),
      NumericString(45), Word, Null, True, List, NaN, BigInt }
ObjectOf(f) ==
    SelectSeq([i \in DOMAIN EXPECTED_SCORE_KEYS |-> <<EXPECTED_SCORE_KEYS[i], f[i]>>],
              LAMBDA pair : pair[2] # Absent)
JudgeObjects ==
    { ObjectOf(f) : f \in [DOMAIN EXPECTED_SCORE_KEYS -> JudgeValues \cup {Absent}] }
    \cup { << <<"Accuracy", NumericString(85)>>, <<"accuracy", True>>, <<"coherence", List>> >>,
           << <<"score", Number(85)>> >> }
\* the objects found inside other text, and the key: number pairs
\* SCORE_PATTERN finds in a text, in the order of the text
SpanObjects ==
    { <<>>,
      << <<"accuracy", Number(150)>> >>,
      << <<"accuracy", Number(25)>>, <<"relevance", Word>>, <<"coherence", Number(100)>> >> }
JudgeMatches ==
    { <<>>,
      << <<"accuracy", NumericString(70)>>, <<"relevance", NumericString(50)>>,
         <<"coherence", NumericString(100)>> >>,
      << <<"Accuracy", NumericString(0 - 300)>>, <<"accuracy", NumericString(45)>> >>,
      << <<"coherence", NumericString(0)>> >> }
JudgeReplies ==
    { [direct |-> "object", span |-> "object", object |-> object, matches |-> <<>>] :
          object \in JudgeObjects }
    \cup { [direct |-> direct, span |-> "object", object |-> object, matches |-> matches] :
               direct \in {"other", "invalid"}, object \in SpanObjects,
               matches \in JudgeMatches }
    \cup { [direct |-> direct, span |-> span, object |-> <<>>, matches |-> matches] :
               direct \in {"other", "invalid"}, span \in {"none", "invalid"},
               matches \in JudgeMatches }
\* what self._llm.invoke comes to
JudgeOutcomes ==
    { [raises |-> TRUE, reply |-> [direct |-> "invalid", span |-> "none",
                                   object |-> <<>>, matches |-> <<>>]] }
    \cup { [raises |-> FALSE, reply |-> reply] : reply \in JudgeReplies }

\* ------------------------------------------------------------------ inputs
\* prompts given to ask and to the chat endpoint: one with text, one blank
Prompts == { <<"p">>, <<" ">> }
\* prompt lists given to evaluate: blank entries around one prompt, and two
\* prompts
Batches ==
    { <<>>,
      << <<>>, <<" ">>, <<" ", "q", " ">> >>,
      << <<"q">>, <<" ", "p">> >> }
TemplateArgs == { None, Some(<<>>), Some(<<" ">>), Some(<<"S">>), Some(<<"T">>) }
BoolArgs == { None, Some(TRUE), Some(FALSE) }

\* ------------------------------------------------------------------- state
Threads == {1, 2}

VARIABLES
    chat_state,              \* ChatService.chat_state: [messages |-> ...]
    max_history,             \* ChatService.max_history
    system_prompt_template,  \* ChatService.system_prompt_template
    reasoning_enabled,       \* ChatService.reasoning_enabled
    retriever_enabled,       \* ChatService.retriever_enabled
    system_message,          \* ChatService._system_message
    graph,                   \* ChatService.graph: what _build_graph captured
    concurrent,              \* whether callers may overlap on the instance
    client,                  \* nusmods_client.client: the NusModsClient of line 120
    ncalls,                  \* calls made on the service so far
    pc,                      \* per caller: the graph node about to run
    state,                   \* per caller: the ChatState of the running graph
    running,                 \* per caller: the graph object being streamed
    call,                    \* per caller: locals of ask and its history
    out,                     \* per caller: what the last ask returned
    ev                       \* per caller: the evaluate loop

service == <<chat_state, max_history, system_prompt_template, reasoning_enabled,
             retriever_enabled, system_message, graph>>
config == <<max_history, system_prompt_template, reasoning_enabled,
            retriever_enabled, system_message, graph>>
vars == <<chat_state, max_history, system_prompt_template, reasoning_enabled,
          retriever_enabled, system_message, graph, concurrent, client, ncalls,
          pc, state, running, call, out, ev>>

\* a variant of _build_graph that gets the retriever whatever the flag is
_build_graph_always_retrieves(retriever_on, sysmsg, reasoning) ==
    [retriever |-> TRUE, system_message |-> sysmsg, reasoning |-> reasoning]

\* _build_graph: the closure captures the retriever (None when retrieval is
\* disabled), the system message and the reasoning flag of the model
\* binding; router_node and assistant_node read self.retriever_enabled live
_build_graph(retriever_on, sysmsg, reasoning) ==
    [retriever |-> retriever_on, system_message |-> sysmsg, reasoning |-> reasoning]

EmptyChatState ==
    [messages |-> <<>>, retrieved_docs |-> <<>>,
     router_decision |-> None, router_query |-> None]

\* the record of the call a caller made last: op is the operation, pre the
\* stored messages it found, rebuilt whether configure ran _build_graph,
\* cfg the retriever_enabled in force when the turn started, seen the
\* values of it the nodes of the turn acted on, router_called and
\* index_called whether router_node called the model and retrieve_node the
\* index, router_reply the reply router_node has just parsed, tool_outcomes
\* how the tool calls of the last tools step went, args the arguments of a
\* call of a module-level function, request what the chat request ask runs
\* for has to be graded against (None without a ground truth),
\* developer_view, developer_payload, stream_events and final_state the
\* argument and the locals of ask of these names; final_state, and with it
\* the messages the call stored (committed), are kept after the call
\* returns for the calls under observation only (observed); router_documents
\* is the document summary of the router prompt the model was sent
NoCall ==
    [op |-> "none", prompt |-> <<>>, pre |-> <<>>, history |-> <<>>, rounds |-> 0,
     trace |-> <<>>, model_input |-> <<>>, replies |-> <<>>,
     rebuilt |-> FALSE, cfg |-> FALSE, seen |-> {},
     router_called |-> FALSE, index_called |-> FALSE, router_reply |-> None,
     tool_outcomes |-> <<>>, args |-> <<>>, request |-> None,
     developer_view |-> FALSE, developer_payload |-> None, stream_events |-> <<>>,
     final_state |-> None, committed |-> None, observed |-> FALSE,
     router_documents |-> None]

\* what the last call returned: outcome, the answer and history of a
\* ChatResponse, its developer_view, the value of a module-level function
NoOut ==
    [outcome |-> "none", answer |-> <<>>, history |-> <<>>, developer_view |-> None,
     value |-> <<>>]

\* the loop of evaluate: input is the prompts it was called with, queue the
\* ones not yet looked at, asked the prompts ask was called with, service the
\* ChatService a request to the evaluate endpoint built for itself
NoEval ==
    [active |-> FALSE, input |-> None, queue |-> <<>>, asked |-> <<>>,
     results |-> <<>>, service |-> None]

\* ------------------------------------------------------ the NUSMods client
\* a dict as the set of its items
DictHas(dict, key) == \E item \in dict : item.key = key
DictGet(dict, key) == (CHOOSE item \in dict : item.key = key).value
DictSet(dict, key, value) ==
    { item \in dict : item.key # key } \cup { [key |-> key, value |-> value] }

\* NusModsClient.__init__, lines 11-15: the attributes of the instance;
\* session is the requests.Session, here the GET requests it has made
NusModsClient ==
    [default_acad_year |-> "2025-2026",
     session |-> <<>>,
     module_cache |-> {},
     module_list_cache |-> {}]

\* ChatService.__init__ with max_history, the default template, reasoning
\* off and retrieval on or off
InitStored(messages) ==
    /\ max_history \in 0..MaxHistoryBound
    /\ chat_state = [messages |-> messages]
    /\ system_prompt_template = DEFAULT_SYSTEM_PROMPT_TEMPLATE
    /\ reasoning_enabled = FALSE
    /\ retriever_enabled \in BOOLEAN
    /\ system_message = _build_system_message(system_prompt_template)
    /\ graph = _build_graph(retriever_enabled, system_message, reasoning_enabled)
    /\ pc = [t \in Threads |-> "idle"]
    /\ state = [t \in Threads |-> EmptyChatState]
    /\ running = [t \in Threads |-> graph]
    /\ call = [t \in Threads |-> NoCall]
    /\ out = [t \in Threads |-> NoOut]
    /\ ev = [t \in Threads |-> NoEval]
    /\ client = NusModsClient

InitService == InitStored(<<>>)

Init == InitService /\ concurrent = FALSE /\ ncalls = 0

\* a caller may enter the service: one caller at a time unless concurrent,
\* and then the callers being alike, the one that calls first is caller 1;
\* what its previous call returned (out, the results of evaluate) and the
\* record of that call are dropped when it calls again
CanCall(t) ==
    /\ ncalls < MaxCalls
    /\ pc[t] = "idle"
    /\ ~ev[t].active
    /\ IF concurrent THEN t = 1 \/ ncalls > 0
       ELSE t = 1 /\ \A u \in Threads : pc[u] = "idle" /\ ~ev[u].active

\* ------------------------------------------------------ the developer view
\* _msg_type, lines 78-81: the type of the message in upper case
_msg_type(message) ==
    CASE message.role = "user" -> "HUMAN"
      [] message.role = "assistant" -> "AI"
      [] message.role = "tool" -> "TOOL"
      [] OTHER -> "SYSTEM"

\* _msg_text, lines 84-89
_msg_text(message) == message.content

\* _msg_metadata, lines 92-105: of the fields the messages here carry, the
\* tool calls, when there are any
_msg_metadata(message) ==
    IF message.tool_calls # <<>> THEN Some(message.tool_calls) ELSE None

\* _serialise_message, lines 121-129
_serialise_message(message) ==
    [type |-> _msg_type(message), content |-> _msg_text(message),
     metadata |-> _msg_metadata(message)]

SerialiseAll(messages) ==
    [k \in 1..Len(messages) |-> _serialise_message(messages[k])]

\* ask, lines 386-387: the messages a step of the stream added
NewMessages(before, msgs) == SubSeq(msgs, Len(before) + 1, Len(msgs))

\* ask, lines 400-419: the developer payload of a call with developer_view,
\* None without it; an empty list of documents and an unset decision or
\* query are falsy and left out
DeveloperPayload(t, final_state, condensed) ==
    IF call[t].developer_view
    THEN Some([model_input |-> call[t].developer_payload[1].model_input,
               configuration |-> call[t].developer_payload[1].configuration,
               stream_events |-> SerialiseAll(call[t].stream_events),
               stored_state |-> SerialiseAll(condensed),
               retrieved_docs |->
                   IF final_state.retrieved_docs # <<>>
                   THEN Some(final_state.retrieved_docs) ELSE None,
               router_decision |-> final_state.router_decision,
               router_query |-> final_state.router_query])
    ELSE None

\* ---------------------------------------------------------------- ask
\* ask, lines 370-385: trim the stored messages plus the prompt and start
\* streaming the graph from START; stored is chat_state["messages"] as read
AskBegin(t, prompt, stored) ==
    LET history == _trim(stored \o <<HumanMessage(prompt)>>, max_history)
        developer_view == pc[t] = "ask" /\ call[t].developer_view
        developer_payload ==
            IF developer_view
            THEN Some([model_input |-> SerialiseAll(<<system_message>> \o history),
                       configuration |->
                           [system_prompt_template |-> system_prompt_template,
                            reasoning_enabled |-> reasoning_enabled,
                            retriever_enabled |-> retriever_enabled]])
            ELSE None
    IN  /\ pc' = [pc EXCEPT ![t] = "router"]
        /\ state' = [state EXCEPT ![t] = [EmptyChatState EXCEPT !.messages = history]]
        /\ running' = [running EXCEPT ![t] = graph]
        /\ call' = [call EXCEPT ![t] =
                        [NoCall EXCEPT !.op = "ask", !.prompt = prompt,
                                       !.pre = stored, !.history = history,
                                       !.cfg = retriever_enabled,
                                       !.request = IF pc[t] = "ask" THEN call[t].request
                                                   ELSE None,
                                       !.developer_view = developer_view,
                                       !.observed = pc[t] = "ask" /\ call[t].observed,
                                       !.developer_payload = developer_payload]]
        /\ out' = [out EXCEPT ![t] = NoOut]

Ask(t, prompt) ==
    /\ CanCall(t)
    /\ AskBegin(t, prompt, chat_state.messages)
    /\ ev' = [ev EXCEPT ![t] = NoEval]
    /\ ncalls' = ncalls + 1
    /\ UNCHANGED <<service, concurrent, client>>

\* ask as called by evaluate (line 465) and by the chat endpoint
\* (backend.py line 66): the caller has the prompt and is about to run
\* line 370
AskEnter(t) ==
    /\ pc[t] = "ask"
    /\ AskBegin(t, call[t].prompt, chat_state.messages)
    /\ ev' = [ev EXCEPT ![t].asked =
                  IF ev[t].active THEN Append(@, call[t].prompt) ELSE @]
    /\ UNCHANGED <<service, concurrent, client, ncalls>>

\* a variant of the edge after router that always goes to retrieval
RouterEdge_always_retrieves(router_decision) == "retrieve"

\* the conditional edge after router (lines 349-356)
RouterEdge(router_decision) ==
    IF router_decision = "retrieve_requirements" THEN "retrieve" ELSE "assistant"

\* format_documents (retrieval.py lines 107-119): "Doc i: text" per
\* document, stripped, joined; nothing for None and for []; the index as
\* text, for the few documents the index returns
IndexText(index) == <<"1", "2", "3", "4", "5", "6", "7", "8", "9">>[index]

RECURSIVE Snippets(_, _)
Snippets(documents, index) ==
    IF documents = <<>> THEN <<>>
    ELSE << <<"Doc", IndexText(index)>> \o Strip(Head(documents)) >>
         \o Snippets(Tail(documents), index + 1)

format_documents(documents) ==
    IF documents = <<>> THEN <<>> ELSE Join(Snippets(documents, 1))

\* router_node, lines 300-305: the part of the router prompt that lists the
\* documents already retrieved
RouterPromptDocuments(t) ==
    LET retrieved_texts == format_documents(state[t].retrieved_docs)
    IN  IF retrieved_texts # <<>> THEN retrieved_texts
        ELSE <<"[No documents retrieved yet]">>

\* a variant of router_node without the return of lines 292-293
RouterCallsModel_ignores_flag(t) == state[t].messages # <<>>

\* whether router_node calls the model (lines 292-297 return before it)
RouterCallsModel(t) == retriever_enabled /\ state[t].messages # <<>>

\* router_node, then the conditional edge on router_decision
RouterNode(t) ==
    /\ pc[t] = "router"
    /\ \E router_reply \in RouterReplies :
          LET parsed ==
                  IF RouterCallsModel(t) THEN RouterParse(router_reply)
                  ELSE [router_decision |-> "assistant", router_query |-> None]
          IN  /\ state' = [state EXCEPT ![t].router_decision = Some(parsed.router_decision),
                                        ![t].router_query = parsed.router_query]
              /\ pc' = [pc EXCEPT ![t] = RouterEdge(parsed.router_decision)]
              /\ call' = [call EXCEPT
                            ![t].trace = Append(@, "router"),
                            ![t].seen = @ \cup {retriever_enabled},
                            ![t].router_called = RouterCallsModel(t),
                            ![t].router_documents =
                                IF RouterCallsModel(t) THEN Some(RouterPromptDocuments(t))
                                ELSE @,
                            ![t].router_reply =
                                IF RouterCallsModel(t) THEN Some(router_reply) ELSE None]
    /\ UNCHANGED <<service, concurrent, client, ncalls, running, out, ev>>

\* the query retrieve_node searches with (lines 258-261)
RetrieveQuery(t) ==
    IF state[t].router_query # None THEN state[t].router_query[1]
    ELSE state[t].messages[Len(state[t].messages)].content

\* whether retrieve_node reaches retriever.invoke (line 265)
RetrieveCallsIndex(t) ==
    /\ running[t].retriever
    /\ state[t].messages # <<>>
    /\ RetrieveQuery(t) # <<>>

\* retrieve_node, then the edge to assistant
RetrieveNode(t) ==
    /\ pc[t] = "retrieve"
    /\ \E docs \in IndexResults :
          state' = [state EXCEPT ![t].retrieved_docs =
                        IF RetrieveCallsIndex(t) THEN docs ELSE <<>>]
    /\ pc' = [pc EXCEPT ![t] = "assistant"]
    /\ call' = [call EXCEPT ![t].trace = Append(@, "retrieve"),
                            ![t].seen = @ \cup {running[t].retriever},
                            ![t].index_called = RetrieveCallsIndex(t),
                            ![t].router_reply = None]
    /\ UNCHANGED <<service, concurrent, client, ncalls, running, out, ev>>

\* a variant of the model input that prefixes the context to the newest user
\* message wherever it stands
ModelHistory_prefixes_after_tools(t) ==
    LET history == state[t].messages
        users == { i \in DOMAIN history : history[i].role = "user" }
    IN  IF retriever_enabled /\ users # {}
           /\ combine_context(state[t].retrieved_docs) # <<>>
        THEN LET n == CHOOSE i \in users : \A j \in users : j <= i
             IN  [history EXCEPT ![n] =
                      HumanMessage(Augmented(combine_context(state[t].retrieved_docs),
                                             history[n].content))]
        ELSE history

\* assistant_node, lines 271-284: the history sent to the model, the last
\* message replaced by a context-prefixed copy when it is the user's
ModelHistory(t) ==
    LET history == state[t].messages
        n == Len(history)
    IN  IF retriever_enabled /\ history # <<>> /\ history[n].role = "user"
           /\ combine_context(state[t].retrieved_docs) # <<>>
        THEN [history EXCEPT ![n] =
                  HumanMessage(Augmented(combine_context(state[t].retrieved_docs),
                                         history[n].content))]
        ELSE history

\* a variant of assistant_node that returns the context-prefixed copy
AssistantMessages_from_sent(messages, sent, reply) == Append(sent, reply)

\* assistant_node, line 287, merged by the add_messages reducer: the reply
\* is appended to the messages of the state, not to the copy sent
AssistantMessages(messages, sent, reply) == Append(messages, reply)

\* assistant_node, then tools_condition
AssistantNode(t) ==
    /\ pc[t] = "assistant"
    /\ \E reply \in ModelReplies :
          LET messages == AssistantMessages(state[t].messages, ModelHistory(t), reply)
          IN  /\ reply.tool_calls # <<>> => call[t].rounds < MaxRounds
              /\ state' = [state EXCEPT ![t].messages = messages]
              /\ pc' = [pc EXCEPT ![t] = tools_condition(messages)]
              /\ call' = [call EXCEPT
                            ![t].trace = Append(@, "assistant"),
                            ![t].seen = @ \cup {retriever_enabled},
                            ![t].router_reply = None,
                            ![t].model_input = <<running[t].system_message>> \o ModelHistory(t),
                            ![t].replies = Append(@, reply),
                            ![t].stream_events =
                                IF call[t].developer_view
                                THEN @ \o NewMessages(state[t].messages, messages)
                                ELSE @]
    /\ UNCHANGED <<service, concurrent, client, ncalls, running, out, ev>>

\* a variant of the graph whose edge after tools leads back to the router
ToolsNode_back_to_router(t) ==
    /\ pc[t] = "tools"
    /\ LET messages == state[t].messages
           calls == messages[Len(messages)].tool_calls
       IN  \E outcomes \in [1..Len(calls) -> ToolOutcomes] :
              /\ state' = [state EXCEPT ![t].messages =
                                messages \o ToolResults(calls, outcomes)]
              /\ call' = [call EXCEPT ![t].trace = Append(@, "tools"),
                                      ![t].rounds = @ + 1,
                                      ![t].tool_outcomes = outcomes,
                                      ![t].stream_events =
                                          IF call[t].developer_view
                                          THEN @ \o NewMessages(state[t].messages,
                                                                state'[t].messages)
                                          ELSE @]
    /\ pc' = [pc EXCEPT ![t] = "router"]
    /\ UNCHANGED <<service, concurrent, client, ncalls, running, out, ev>>

\* the ToolNode, then the edge back to assistant
ToolsNode(t) ==
    /\ pc[t] = "tools"
    /\ LET messages == state[t].messages
           calls == messages[Len(messages)].tool_calls
       IN  \E outcomes \in [1..Len(calls) -> ToolOutcomes] :
              /\ state' = [state EXCEPT ![t].messages =
                                messages \o ToolResults(calls, outcomes)]
              /\ call' = [call EXCEPT ![t].trace = Append(@, "tools"),
                                      ![t].rounds = @ + 1,
                                      ![t].tool_outcomes = outcomes,
                                      ![t].stream_events =
                                          IF call[t].developer_view
                                          THEN @ \o NewMessages(state[t].messages,
                                                                state'[t].messages)
                                          ELSE @]
    /\ pc' = [pc EXCEPT ![t] = "assistant"]
    /\ UNCHANGED <<service, concurrent, client, ncalls, running, out, ev>>

\* the ToolNode when every tool function returns
ToolsNodeReturns(t) ==
    /\ ToolsNode(t)
    /\ \A k \in DOMAIN call'[t].tool_outcomes : call'[t].tool_outcomes[k] = "ok"

\* an exception raised inside the graph leaves stream and ask (and an
\* enclosing evaluate) before line 393
Raised(t, node) ==
    /\ pc' = [pc EXCEPT ![t] = "idle"]
    /\ state' = [state EXCEPT ![t] = EmptyChatState]
    /\ call' = [call EXCEPT ![t].trace = Append(@, node),
                            ![t].router_reply = None]
    /\ out' = [out EXCEPT ![t] = [NoOut EXCEPT !.outcome = "error"]]
    /\ ev' = [ev EXCEPT ![t] = NoEval]
    /\ UNCHANGED <<config, concurrent, client, ncalls, running>>

\* a variant of ModelInvocationFailure that stores what the graph had
\* produced when the model call raised
ModelInvocationFailure_commits(t) ==
    /\ \/ pc[t] = "router" /\ RouterCallsModel(t)
       \/ pc[t] = "assistant"
    /\ Raised(t, pc[t])
    /\ chat_state' = [messages |-> _condense_history(state[t].messages, max_history)]

\* llm.invoke raises in router_node (line 327) or assistant_node (line 286)
ModelInvocationFailure(t) ==
    /\ \/ pc[t] = "router" /\ RouterCallsModel(t)
       \/ pc[t] = "assistant"
    /\ Raised(t, pc[t])
    /\ UNCHANGED chat_state

\* retriever.invoke raises in retrieve_node (line 265); nothing catches it
RetrievalFailure(t) ==
    /\ pc[t] = "retrieve"
    /\ RetrieveCallsIndex(t)
    /\ Raised(t, "retrieve")
    /\ UNCHANGED chat_state

\* a variant of the answer pick that skips assistant messages without text
RECURSIVE AnswerOf_skips_empty(_)
AnswerOf_skips_empty(messages) ==
    IF messages = <<>> THEN <<>>
    ELSE IF messages[Len(messages)].role = "assistant"
            /\ messages[Len(messages)].content # <<>>
         THEN messages[Len(messages)].content
         ELSE AnswerOf_skips_empty(SubSeq(messages, 1, Len(messages) - 1))

\* ask, lines 421-425: the content of the last AIMessage of the stored state
RECURSIVE AnswerOf(_)
AnswerOf(messages) ==
    IF messages = <<>> THEN <<>>
    ELSE IF messages[Len(messages)].role = "assistant"
         THEN messages[Len(messages)].content
         ELSE AnswerOf(SubSeq(messages, 1, Len(messages) - 1))

\* _role_for_message
_role_for_message(message) == message.role

\* a variant of the history projection that keeps blank assistant messages
RECURSIVE HistoryPayload_keeps_blank(_)
HistoryPayload_keeps_blank(messages) ==
    IF messages = <<>> THEN <<>>
    ELSE LET msg == Head(messages)
             rest == HistoryPayload_keeps_blank(Tail(messages))
         IN  IF msg.role \notin {"user", "assistant"} THEN rest
             ELSE <<[role |-> msg.role, content |-> msg.content]>> \o rest

\* a variant of the history projection that lists the newest message first
RECURSIVE HistoryPayload_newest_first(_)
HistoryPayload_newest_first(messages) ==
    IF messages = <<>> THEN <<>>
    ELSE LET msg == Head(messages)
             rest == HistoryPayload_newest_first(Tail(messages))
         IN  IF msg.role \notin {"user", "assistant"} THEN rest
             ELSE IF msg.role = "assistant" /\ Strip(msg.content) = <<>> THEN rest
             ELSE rest \o <<[role |-> msg.role, content |-> msg.content]>>

\* ask, lines 427-447: user and assistant messages, blank assistant ones
\* skipped; the metadata of a stored message is empty
RECURSIVE HistoryPayload(_)
HistoryPayload(messages) ==
    IF messages = <<>> THEN <<>>
    ELSE LET msg == Head(messages)
             rest == HistoryPayload(Tail(messages))
         IN  IF msg.role \notin {"user", "assistant"} THEN rest
             ELSE IF msg.role = "assistant" /\ Strip(msg.content) = <<>> THEN rest
             ELSE <<[role |-> _role_for_message(msg), content |-> msg.content]>> \o rest

\* a variant of ask that adds its turn to the messages stored when it ends
AskFinish_rebases(t) ==
    /\ pc[t] = "finish"
    /\ LET final_state == state[t]
           new_msgs == NewMessages(call[t].history, final_state.messages)
           condensed == _condense_history(
                            chat_state.messages \o <<HumanMessage(call[t].prompt)>>
                                \o new_msgs,
                            max_history)
           response == [NoOut EXCEPT !.outcome = "ok",
                                     !.answer = AnswerOf(condensed),
                                     !.history = HistoryPayload(condensed),
                                     !.developer_view =
                                         DeveloperPayload(t, final_state, condensed)]
       IN  /\ chat_state' = [messages |-> condensed]
           /\ out' = [out EXCEPT ![t] = response]
           /\ ev' = [ev EXCEPT ![t].results =
                         IF ev[t].active THEN Append(@, response) ELSE @]
           /\ call' = [call EXCEPT
                         ![t].final_state =
                             IF call[t].observed THEN Some(final_state) ELSE None,
                         ![t].committed =
                             IF call[t].observed THEN Some(condensed) ELSE None]
    /\ pc' = [pc EXCEPT ![t] = IF call[t].request # None THEN "grade" ELSE "idle"]
    /\ state' = [state EXCEPT ![t] = EmptyChatState]
    /\ UNCHANGED <<config, concurrent, client, ncalls, running>>

\* ask with a developer view that stores the tool steps of the turn
AskFinish_traced_keeps_steps(t) ==
    /\ pc[t] = "finish"
    /\ LET final_state == state[t]
           condensed == IF call[t].developer_view
                        THEN _trim(final_state.messages, max_history)
                        ELSE _condense_history(final_state.messages, max_history)
           response == [NoOut EXCEPT !.outcome = "ok",
                                     !.answer = AnswerOf(condensed),
                                     !.history = HistoryPayload(condensed),
                                     !.developer_view =
                                         DeveloperPayload(t, final_state, condensed)]
       IN  /\ chat_state' = [messages |-> condensed]
           /\ out' = [out EXCEPT ![t] = response]
           /\ ev' = [ev EXCEPT ![t].results =
                         IF ev[t].active THEN Append(@, response) ELSE @]
           /\ call' = [call EXCEPT
                         ![t].final_state =
                             IF call[t].observed THEN Some(final_state) ELSE None,
                         ![t].committed =
                             IF call[t].observed THEN Some(condensed) ELSE None]
    /\ pc' = [pc EXCEPT ![t] = IF call[t].request # None THEN "grade" ELSE "idle"]
    /\ state' = [state EXCEPT ![t] = EmptyChatState]
    /\ UNCHANGED <<config, concurrent, client, ncalls, running>>

\* ask, lines 393-449, after the stream has ended: commit the condensed
\* final state, pick the answer, build the history; inside evaluate the
\* response is appended to the results, and inside a chat request with a
\* ground truth the endpoint goes on to grade it
AskFinish(t) ==
    /\ pc[t] = "finish"
    /\ LET final_state == state[t]
           condensed == _condense_history(final_state.messages, max_history)
           response == [NoOut EXCEPT !.outcome = "ok",
                                     !.answer = AnswerOf(condensed),
                                     !.history = HistoryPayload(condensed),
                                     !.developer_view =
                                         DeveloperPayload(t, final_state, condensed)]
       IN  /\ chat_state' = [messages |-> condensed]
           /\ out' = [out EXCEPT ![t] = response]
           /\ ev' = [ev EXCEPT ![t].results =
                         IF ev[t].active THEN Append(@, response) ELSE @]
           /\ call' = [call EXCEPT
                         ![t].final_state =
                             IF call[t].observed THEN Some(final_state) ELSE None,
                         ![t].committed =
                             IF call[t].observed THEN Some(condensed) ELSE None]
    /\ pc' = [pc EXCEPT ![t] = IF call[t].request # None THEN "grade" ELSE "idle"]
    /\ state' = [state EXCEPT ![t] = EmptyChatState]
    /\ UNCHANGED <<config, concurrent, client, ncalls, running>>

\* ---------------------------------------------------------------- reset
\* a variant of reset that also puts the configuration back to the defaults
Reset_restores_defaults(t) ==
    /\ CanCall(t)
    /\ chat_state' = [messages |-> <<>>]
    /\ system_prompt_template' = DEFAULT_SYSTEM_PROMPT_TEMPLATE
    /\ system_message' = _build_system_message(DEFAULT_SYSTEM_PROMPT_TEMPLATE)
    /\ graph' = _build_graph(retriever_enabled,
                             _build_system_message(DEFAULT_SYSTEM_PROMPT_TEMPLATE),
                             reasoning_enabled)
    /\ call' = [call EXCEPT ![t] =
                    [NoCall EXCEPT !.op = "reset", !.pre = chat_state.messages]]
    /\ out' = [out EXCEPT ![t] = NoOut]
    /\ ev' = [ev EXCEPT ![t] = NoEval]
    /\ ncalls' = ncalls + 1
    /\ UNCHANGED <<max_history, reasoning_enabled, retriever_enabled,
                   concurrent, client, pc, state, running>>

Reset(t) ==
    /\ CanCall(t)
    /\ chat_state' = [messages |-> <<>>]
    /\ call' = [call EXCEPT ![t] =
                    [NoCall EXCEPT !.op = "reset", !.pre = chat_state.messages]]
    /\ out' = [out EXCEPT ![t] = NoOut]
    /\ ev' = [ev EXCEPT ![t] = NoEval]
    /\ ncalls' = ncalls + 1
    /\ UNCHANGED <<config, concurrent, client, pc, state, running>>

\* ------------------------------------------------------------ configure
\* a variant of the body of configure without the early return of line 224
configure_always_rebuilds(t, rec, template_arg, reasoning_arg, retriever_arg) ==
    LET new_template ==
            IF template_arg # None
            THEN IF Strip(template_arg[1]) # <<>> THEN template_arg[1]
                 ELSE system_prompt_template
            ELSE system_prompt_template
        new_reasoning ==
            IF reasoning_arg = None THEN reasoning_enabled ELSE reasoning_arg[1]
        new_retriever ==
            IF retriever_arg = None THEN retriever_enabled ELSE retriever_arg[1]
    IN  /\ system_prompt_template' = new_template
        /\ reasoning_enabled' = new_reasoning
        /\ retriever_enabled' = new_retriever
        /\ system_message' = _build_system_message(new_template)
        /\ graph' = _build_graph(new_retriever,
                                 _build_system_message(new_template),
                                 new_reasoning)
        /\ call' = [call EXCEPT ![t] = [rec EXCEPT !.rebuilt = TRUE]]

\* the body of configure (lines 206-231); rec is the record of the call it
\* is part of, in which rebuilt tells whether line 231 ran
configure(t, rec, template_arg, reasoning_arg, retriever_arg) ==
    LET new_template ==
            IF template_arg # None
            THEN IF Strip(template_arg[1]) # <<>> THEN template_arg[1]
                 ELSE system_prompt_template
            ELSE system_prompt_template
        new_reasoning ==
            IF reasoning_arg = None THEN reasoning_enabled ELSE reasoning_arg[1]
        new_retriever ==
            IF retriever_arg = None THEN retriever_enabled ELSE retriever_arg[1]
    IN  IF /\ new_template = system_prompt_template
           /\ new_reasoning = reasoning_enabled
           /\ new_retriever = retriever_enabled
        THEN /\ UNCHANGED <<system_prompt_template, reasoning_enabled,
                            retriever_enabled, system_message, graph>>
             /\ call' = [call EXCEPT ![t] = [rec EXCEPT !.rebuilt = FALSE]]
        ELSE /\ system_prompt_template' = new_template
             /\ reasoning_enabled' = new_reasoning
             /\ retriever_enabled' = new_retriever
             /\ system_message' = _build_system_message(new_template)
             /\ graph' = _build_graph(new_retriever,
                                      _build_system_message(new_template),
                                      new_reasoning)
             /\ call' = [call EXCEPT ![t] = [rec EXCEPT !.rebuilt = TRUE]]

Configure(t, template_arg, reasoning_arg, retriever_arg) ==
    /\ CanCall(t)
    /\ configure(t, [NoCall EXCEPT !.op = "configure"],
                 template_arg, reasoning_arg, retriever_arg)
    /\ out' = [out EXCEPT ![t] = NoOut]
    /\ ev' = [ev EXCEPT ![t] = NoEval]
    /\ ncalls' = ncalls + 1
    /\ UNCHANGED <<chat_state, max_history, concurrent, client, pc, state, running>>

\* ------------------------------------------------------------- evaluate
Evaluate(t, prompts) ==
    /\ CanCall(t)
    /\ ev' = [ev EXCEPT ![t] =
                  [NoEval EXCEPT !.active = TRUE, !.input = Some(prompts),
                                 !.queue = prompts]]
    /\ call' = [call EXCEPT ![t] = [NoCall EXCEPT !.op = "evaluate"]]
    /\ out' = [out EXCEPT ![t] = NoOut]
    /\ ncalls' = ncalls + 1
    /\ UNCHANGED <<service, concurrent, client, pc, state, running>>

\* a variant of line 461 that does not strip the prompt
CleanPrompt_unstripped(prompt) == prompt

\* line 461: (prompt or "").strip()
CleanPrompt(prompt) == Strip(prompt)

\* a variant of the loop of evaluate that leaves out the reset of line 464
EvaluateStep_without_reset(t) ==
    /\ pc[t] = "idle"
    /\ ev[t].active
    /\ IF ev[t].queue = <<>>
       THEN /\ ev' = [ev EXCEPT ![t].active = FALSE]
            /\ UNCHANGED <<service, pc, call>>
       ELSE LET clean_prompt == CleanPrompt(Head(ev[t].queue))
            IN  /\ ev' = [ev EXCEPT ![t].queue = Tail(@)]
                /\ IF clean_prompt = <<>>
                   THEN UNCHANGED <<service, pc, call>>
                   ELSE /\ pc' = [pc EXCEPT ![t] = "ask"]
                        /\ call' = [call EXCEPT ![t] =
                                        [NoCall EXCEPT !.op = "evaluate",
                                                       !.prompt = clean_prompt]]
                        /\ UNCHANGED service
    /\ UNCHANGED <<concurrent, client, ncalls, state, running, out>>

\* the loop of evaluate (lines 459-466): its return when no prompt is left,
\* else one iteration up to the call of ask: a blank prompt is skipped, for
\* any other reset runs and ask is about to be called
EvaluateStep(t) ==
    /\ pc[t] = "idle"
    /\ ev[t].active
    /\ IF ev[t].queue = <<>>
       THEN /\ ev' = [ev EXCEPT ![t].active = FALSE]
            /\ UNCHANGED <<service, pc, call>>
       ELSE LET clean_prompt == CleanPrompt(Head(ev[t].queue))
            IN  /\ ev' = [ev EXCEPT ![t].queue = Tail(@)]
                /\ IF clean_prompt = <<>>
                   THEN UNCHANGED <<service, pc, call>>
                   ELSE /\ chat_state' = [messages |-> <<>>]
                        /\ pc' = [pc EXCEPT ![t] = "ask"]
                        /\ call' = [call EXCEPT ![t] =
                                        [NoCall EXCEPT !.op = "evaluate",
                                                       !.prompt = clean_prompt]]
                        /\ UNCHANGED config
    /\ UNCHANGED <<concurrent, client, ncalls, state, running, out>>

\* ------------------------------------------------- backend.py: /api/chat
\* a variant of line 58 that passes the template of the payload as it is
ChatTemplate_as_given(template_arg) == template_arg

\* line 58: system_prompt_template or DEFAULT_SYSTEM_PROMPT_TEMPLATE
ChatTemplate(template_arg) ==
    IF template_arg = None \/ template_arg[1] = <<>>
    THEN Some(DEFAULT_SYSTEM_PROMPT_TEMPLATE)
    ELSE template_arg

\* what the payload of a chat request gives as ground_truth
GroundTruthArgs == { None, Some(<<" ">>), Some(<<"g", " ">>) }

\* line 56: (payload.get("ground_truth") or "").strip()
GroundTruth(ground_truth_arg) ==
    IF ground_truth_arg = None THEN <<>> ELSE Strip(ground_truth_arg[1])

\* a variant of the chat endpoint that checks the prompt before it configures
Chat_validates_first(t, prompt_arg, template_arg, reasoning_arg, retriever_arg, ground_truth_arg) ==
    LET prompt == Strip(prompt_arg)
        ground_truth == GroundTruth(ground_truth_arg)
    IN  /\ CanCall(t)
        /\ configure(t, [NoCall EXCEPT !.op = "chat", !.prompt = prompt,
                                       !.pre = chat_state.messages,
                                       !.request =
                                           IF ground_truth # <<>>
                                           THEN Some([ground_truth |-> ground_truth])
                                           ELSE None],
                     IF prompt = <<>> THEN None ELSE ChatTemplate(template_arg),
                     IF prompt = <<>> THEN None ELSE reasoning_arg,
                     IF prompt = <<>> THEN None ELSE retriever_arg)
        /\ IF prompt = <<>>
           THEN /\ out' = [out EXCEPT ![t] = [NoOut EXCEPT !.outcome = "invalid"]]
                /\ UNCHANGED pc
           ELSE /\ out' = [out EXCEPT ![t] = NoOut]
                /\ pc' = [pc EXCEPT ![t] = "ask"]
        /\ ev' = [ev EXCEPT ![t] = NoEval]
        /\ ncalls' = ncalls + 1
        /\ UNCHANGED <<chat_state, max_history, concurrent, client, state, running>>

\* chat(), lines 50-66: configure with the values of the payload, then
\* answer 400 for a prompt that is blank after stripping, else call ask
Chat(t, prompt_arg, template_arg, reasoning_arg, retriever_arg, ground_truth_arg) ==
    LET prompt == Strip(prompt_arg)
        ground_truth == GroundTruth(ground_truth_arg)
    IN  /\ CanCall(t)
        /\ configure(t, [NoCall EXCEPT !.op = "chat", !.prompt = prompt,
                                       !.pre = chat_state.messages,
                                       !.request =
                                           IF ground_truth # <<>>
                                           THEN Some([ground_truth |-> ground_truth])
                                           ELSE None],
                     ChatTemplate(template_arg), reasoning_arg, retriever_arg)
        /\ IF prompt = <<>>
           THEN /\ out' = [out EXCEPT ![t] = [NoOut EXCEPT !.outcome = "invalid"]]
                /\ UNCHANGED pc
           ELSE /\ out' = [out EXCEPT ![t] = NoOut]
                /\ pc' = [pc EXCEPT ![t] = "ask"]
        /\ ev' = [ev EXCEPT ![t] = NoEval]
        /\ ncalls' = ncalls + 1
        /\ UNCHANGED <<chat_state, max_history, concurrent, client, state, running>>

\* what the judge call of a graded chat request comes to: it raises, or
\* the reply has nothing to parse, or all three scores, or an integer
\* beyond the range of float for one of them
ChatJudgeOutcomes ==
    { judge \in JudgeOutcomes :
          \/ judge.raises
          \/ /\ judge.reply.direct = "invalid" /\ judge.reply.span = "none"
             /\ judge.reply.matches = <<>>
          \/ /\ judge.reply.direct = "object"
             /\ judge.reply.object \in
                    { ObjectOf([i \in DOMAIN EXPECTED_SCORE_KEYS |-> Number(85)]),
                      ObjectOf([i \in DOMAIN EXPECTED_SCORE_KEYS |->
                                   IF i = 1 THEN BigInt ELSE Number(85)]) } }

\* chat(), lines 84-103, for a request with a ground truth: grade the
\* answer ask returned and put the evaluation into the body beside the
\* answer and the history; an exception of grade leaves the endpoint
ChatGrade(t) ==
    /\ pc[t] = "grade"
    /\ \E judge \in ChatJudgeOutcomes :
          LET result == grade(call[t].prompt, call[t].request[1].ground_truth,
                              out[t].answer, FALSE, judge)
          IN  /\ call' = [call EXCEPT ![t].args = <<judge>>]
              /\ out' = [out EXCEPT ![t] =
                             IF result.raised THEN [NoOut EXCEPT !.outcome = "error"]
                             ELSE [@ EXCEPT !.value = [evaluation |-> result.evaluation]]]
    /\ pc' = [pc EXCEPT ![t] = "idle"]
    /\ UNCHANGED <<service, concurrent, client, ncalls, state, running, ev>>

\* ------------------------------------------------------------ behaviours
Next ==
    \E t \in Threads :
        \/ \E prompt \in Prompts : Ask(t, prompt)
        \/ AskEnter(t)
        \/ RouterNode(t)
        \/ RetrieveNode(t)
        \/ AssistantNode(t)
        \/ ToolsNodeReturns(t)
        \/ ModelInvocationFailure(t)
        \/ RetrievalFailure(t)
        \/ AskFinish(t)
        \/ Reset(t)
        \/ \E a \in TemplateArgs, b \in BoolArgs, c \in BoolArgs : Configure(t, a, b, c)
        \/ \E prompts \in Batches : Evaluate(t, prompts)
        \/ EvaluateStep(t)

Spec == Init /\ [][Next]_vars

\* ------------------------------------------------- the history functions
\* the messages _trim and _condense_history are called with
TrimMessages == { HumanMessage(<<"u">>), AIMessage(<<"a">>, <<>>) }
CondenseMessages ==
    { HumanMessage(<<"u">>), AIMessage(<<"a">>, <<>>), AIMessage(<<>>, <<"t1">>),
      ToolMessage(<<"t1">>, 1), SystemMessage(<<"S">>) }
\* their lengths go past the 2*max_history that _trim keeps
MaxTrimInput == 2 * MaxHistoryBound + 1
MaxCondenseInput == 2 * MaxHistoryBound
HistoryLimits == (0 - 1)..MaxHistoryBound

\* a call of a module-level function by caller t, its first call: the
\* record of the call and the value returned
FunctionCall(t, name, args, value) ==
    /\ pc[t] = "idle"
    /\ call[t].op = "none"
    /\ call' = [call EXCEPT ![t] = [NoCall EXCEPT !.op = name, !.args = args]]
    /\ out' = [out EXCEPT ![t] = [NoOut EXCEPT !.outcome = "ok", !.value = value]]
    /\ UNCHANGED <<service, concurrent, client, ncalls, pc, state, running, ev>>

\* _trim(messages, max_history)
Trim(t, messages, n) ==
    FunctionCall(t, "_trim", <<messages, n>>, _trim(messages, n))

\* _condense_history(messages, max_history)
Condense(t, messages, n) ==
    FunctionCall(t, "_condense_history", <<messages, n>>, _condense_history(messages, n))

\* the functions take no part of the service: one service stands for all
InitFunctions == Init /\ max_history = MaxHistoryBound /\ retriever_enabled

NextTrim ==
    \E t \in {1} :
        /\ call[t].op = "none"
        /\ \E messages \in SeqsUpTo(TrimMessages, MaxTrimInput), n \in HistoryLimits :
              Trim(t, messages, n)

SpecTrim == InitFunctions /\ [][NextTrim]_vars

NextCondense ==
    \E t \in {1} :
        /\ call[t].op = "none"
        /\ \E messages \in SeqsUpTo(CondenseMessages, MaxCondenseInput), n \in HistoryLimits :
              Condense(t, messages, n)

SpecCondense == InitFunctions /\ [][NextCondense]_vars

\* ------------------------------------------------------------ the grader
\* the arguments grade is called with
GradeAnswers == { <<"a">>, <<" ">> }

\* ResponseGrader.grade called by caller t, its first call
Grade(t, question, ground_truth, answer, developer_view, judge) ==
    LET result == grade(question, ground_truth, answer, developer_view, judge)
    IN  /\ pc[t] = "idle"
        /\ call[t].op = "none"
        /\ call' = [call EXCEPT ![t] =
                        [NoCall EXCEPT !.op = "grade",
                                       !.args = <<question, ground_truth, answer,
                                                  developer_view, judge>>]]
        /\ out' = [out EXCEPT ![t] =
                       IF result.raised THEN [NoOut EXCEPT !.outcome = "error"]
                       ELSE [NoOut EXCEPT !.outcome = "ok",
                                          !.value = [evaluation |-> result.evaluation,
                                                     developer |-> result.developer]]]
        /\ UNCHANGED <<service, concurrent, client, ncalls, pc, state, running, ev>>

NextGrade ==
    \E t \in {1} :
        /\ call[t].op = "none"
        /\ \E answer \in GradeAnswers, developer_view \in BOOLEAN, judge \in JudgeOutcomes :
              Grade(t, <<"p">>, <<"g">>, answer, developer_view, judge)

SpecGrade == InitFunctions /\ [][NextGrade]_vars

\* the service as the HTTP endpoints of backend.py drive it: /api/chat and
\* /api/reset act on the instance of line 19 (/api/evaluate builds its own)
NextBackend ==
    \E t \in Threads :
        \/ \E prompt \in Prompts, a \in TemplateArgs, b \in BoolArgs, c \in BoolArgs,
              g \in GroundTruthArgs :
               Chat(t, prompt, a, b, c, g)
        \/ Reset(t)
        \/ AskEnter(t)
        \/ RouterNode(t)
        \/ RetrieveNode(t)
        \/ AssistantNode(t)
        \/ ToolsNodeReturns(t)
        \/ ModelInvocationFailure(t)
        \/ RetrievalFailure(t)
        \/ AskFinish(t)
        \/ ChatGrade(t)

\* one request at a time
SpecBackend == Init /\ [][NextBackend]_vars

\* the instance of line 19 under a threaded server: requests overlap
InitShared == InitService /\ concurrent = TRUE /\ ncalls = 0

\* overlapping requests, none of them with a ground truth
NextShared ==
    \E t \in Threads :
        \/ \E prompt \in Prompts, a \in TemplateArgs, b \in BoolArgs, c \in BoolArgs :
               Chat(t, prompt, a, b, c, None)
        \/ Reset(t)
        \/ AskEnter(t)
        \/ RouterNode(t)
        \/ RetrieveNode(t)
        \/ AssistantNode(t)
        \/ ToolsNodeReturns(t)
        \/ ModelInvocationFailure(t)
        \/ RetrievalFailure(t)
        \/ AskFinish(t)

SpecShared == InitShared /\ [][NextShared]_vars

\* asks, one at a time, whose tool calls may fail
NextTools ==
    \E t \in Threads :
        \/ \E prompt \in Prompts : Ask(t, prompt)
        \/ RouterNode(t)
        \/ RetrieveNode(t)
        \/ AssistantNode(t)
        \/ ToolsNode(t)
        \/ ModelInvocationFailure(t)
        \/ RetrievalFailure(t)
        \/ AskFinish(t)

SpecTools == Init /\ [][NextTools]_vars


TypeOK ==
    /\ max_history \in 0..MaxHistoryBound
    /\ ncalls \in 0..MaxCalls
    /\ \A t \in Threads :
          /\ pc[t] \in {"idle", "ask", "router", "retrieve", "assistant", "tools", "finish",
                      "grade", "sweep"}
          /\ call[t].rounds \in 0..MaxRounds

\* ===================================================================
\* Properties
\* ===================================================================
Stored == chat_state.messages

\* the turn of caller t has returned normally and nothing was called since
Completed(t) == pc[t] = "idle" /\ out[t].outcome = "ok"

\* the final reply of the turn of caller t
FinalReply(t) == call[t].replies[Len(call[t].replies)]

\* C1: after any sequence of ask, reset, configure and evaluate calls the
\* stored message sequence has at most 2 x max_history messages
C1_StoredLengthBounded == Len(Stored) <= 2 * max_history

\* a turn with a tool round has completed and its condensed messages, one
\* more than the limit, were cut to the limit
C1_Witness ==
    /\ Completed(1) /\ call[1].rounds = 1
    /\ max_history = 1 /\ Len(Stored) = 2

\* C2: after every completed turn, tool-calling turns included, the stored
\* state gains exactly one user/assistant pair for the turn: the trimmed
\* history (which ends with the prompt) followed by the final assistant
\* message only, within the length limit
C2_OnePairPerTurn ==
    \A t \in Threads :
        Completed(t) =>
            Stored = _trim(call[t].history \o <<AIMessage(FinalReply(t).content, <<>>)>>,
                           max_history)

\* C3: a failed model invocation or an abandoned turn commits nothing: while
\* a turn is in flight and after it has failed the stored messages are the
\* pre-turn ones, and the ask that follows a failure starts from them
C3_NoPartialCommit ==
    /\ [](\A t \in Threads :
            (pc[t] # "idle" \/ out[t].outcome = "error") => Stored = call[t].pre)
    /\ [][\A t \in Threads :
            (out[t].outcome = "error" /\ pc'[t] = "router" /\ ev'[t] = ev[t]) =>
                /\ call'[t].pre = call[t].pre
                /\ state'[t].messages =
                       _trim(call[t].pre \o <<HumanMessage(call'[t].prompt)>>, max_history)]_vars

\* a model invocation failed after a tool round of a turn that started from
\* a non-empty stored history
C3_Witness ==
    /\ pc[1] = "idle" /\ out[1].outcome = "error"
    /\ call[1].rounds = 1 /\ call[1].trace[Len(call[1].trace)] = "assistant"
    /\ Stored # <<>>

C5_StepOrder ==
    /\ [](\A t \in Threads :
            LET tr == call[t].trace
            IN  /\ tr # <<>> => tr[1] = "router"
                /\ pc[t] \notin {"idle", "ask", "router"} => tr # <<>>
                /\ \A i \in DOMAIN tr :
                      /\ tr[i] = "router" => i = 1
                      /\ tr[i] = "retrieve" => i = 2
                      /\ tr[i] = "tools" =>
                            /\ i > 1 /\ tr[i - 1] = "assistant"
                            /\ IF i < Len(tr) THEN tr[i + 1] = "assistant"
                               ELSE pc[t] = "assistant")
    /\ [][\A t \in Threads :
            /\ (pc[t] # "retrieve" /\ pc'[t] = "retrieve") =>
                  /\ pc[t] = "router"
                  /\ state'[t].router_decision = Some("retrieve_requirements")
            /\ (pc[t] # "tools" /\ pc'[t] = "tools") =>
                  /\ pc[t] = "assistant"
                  /\ state'[t].messages[Len(state'[t].messages)].tool_calls # <<>>]_vars

\* a completed turn that went router, retrieval, model, tools, model
C5_Witness ==
    Completed(1) /\ call[1].trace = <<"router", "retrieve", "assistant", "tools", "assistant">>

\* every assistant message with tool calls in msgs is followed by exactly
\* one tool result per call, in call order
ToolResultsFollow(msgs) ==
    \A i \in DOMAIN msgs :
        (msgs[i].role = "assistant" /\ msgs[i].tool_calls # <<>>) =>
            LET calls == msgs[i].tool_calls
            IN  /\ i + Len(calls) <= Len(msgs)
                /\ \A k \in 1..Len(calls) :
                      /\ msgs[i + k].role = "tool"
                      /\ msgs[i + k].tool_call_id = k
                      /\ msgs[i + k].content \in
                             { ToolResultText(calls[k], o) : o \in ToolOutcomes }
                /\ i + Len(calls) < Len(msgs) => msgs[i + Len(calls) + 1].role # "tool"

\* C6: when a reply carries several tool calls, one tool result per call is
\* appended in call order, and all of them are in the input of the next
\* model invocation
C6_ToolResultsInCallOrder ==
    \A t \in Threads :
        /\ pc[t] # "tools" => ToolResultsFollow(state[t].messages)
        /\ ToolResultsFollow(call[t].model_input)
        /\ (call[t].rounds > 0 /\ Len(call[t].replies) > call[t].rounds) =>
              \E i \in DOMAIN call[t].model_input :
                  /\ call[t].model_input[i].role = "assistant"
                  /\ Len(call[t].model_input[i].tool_calls) = 2
                  /\ i + 2 = Len(call[t].model_input)

\* the model has been invoked with the two tool results of the round before
C6_Witness ==
    /\ call[1].rounds = 1 /\ Len(call[1].replies) = 2
    /\ LET input == call[1].model_input
       IN  /\ Len(input) >= 3
           /\ input[Len(input) - 1].content = <<"t1">>
           /\ input[Len(input)].content = <<"t2">>

\* the text carries retrieved context: the prefix or a document character
CarriesContext(text) ==
    \E i \in DOMAIN text : text[i] \in {"Context:", "User:", "d", "|"}

\* C7: context injection is non-destructive: the user messages of the graph
\* state and of the stored history keep the original prompt text, and no
\* retrieved document text reaches the stored history
C7_ContextNotStored ==
    \A t \in Threads :
        /\ \A i \in DOMAIN state[t].messages :
              state[t].messages[i].role = "user" =>
                  ~CarriesContext(state[t].messages[i].content)
        /\ \A i \in DOMAIN Stored : ~CarriesContext(Stored[i].content)
        /\ (pc[t] \notin {"idle", "ask"} /\ max_history > 0) =>
              \E i \in DOMAIN state[t].messages :
                  /\ state[t].messages[i] = HumanMessage(call[t].prompt)
                  /\ \A j \in (i + 1)..Len(state[t].messages) :
                        state[t].messages[j].role # "user"
        /\ (Completed(t) /\ Len(call[t].replies) = 1 /\ max_history > 0) =>
              Stored[Len(Stored) - 1] = HumanMessage(call[t].prompt)

\* a turn without tool calls completed after the model was sent the prompt
\* prefixed with the retrieved context
C7_Witness ==
    /\ Completed(1) /\ Len(call[1].replies) = 1 /\ max_history > 0
    /\ call[1].model_input[Len(call[1].model_input)] =
           HumanMessage(Augmented(<<"d">>, call[1].prompt))

\* C8: the stored history holds user and assistant messages only, none of
\* them with tool-call directives
C8_NoToolPlumbingStored ==
    \A i \in DOMAIN Stored :
        /\ Stored[i].role \in {"user", "assistant"}
        /\ Stored[i].tool_calls = <<>>
        /\ Stored[i].tool_call_id = 0

\* a turn with a tool round has completed and left messages in the store
C8_Witness == Completed(1) /\ call[1].rounds = 1 /\ Stored # <<>>

\* the content of the most recent assistant message with non-empty content
RECURSIVE LastNonEmptyAssistant(_)
LastNonEmptyAssistant(msgs) ==
    IF msgs = <<>> THEN <<>>
    ELSE IF msgs[Len(msgs)].role = "assistant" /\ msgs[Len(msgs)].content # <<>>
         THEN msgs[Len(msgs)].content
         ELSE LastNonEmptyAssistant(SubSeq(msgs, 1, Len(msgs) - 1))

\* C9 as stated: the answer is the content of the most recent assistant
\* message with non-empty content, empty replies being skipped
C9_AnswerSkipsEmpty ==
    \A t \in Threads : Completed(t) => out[t].answer = LastNonEmptyAssistant(Stored)

\* C9 as amended: the answer is the content of the last assistant message
\* of the stored state, empty or not: the final reply of the turn when
\* max_history >= 1, and the empty text when nothing is stored
C9_AnswerIsFinalReply ==
    \A t \in Threads :
        Completed(t) =>
            out[t].answer = IF max_history >= 1 THEN FinalReply(t).content ELSE <<>>

\* the final reply of the turn was empty while an earlier assistant message
\* with text is stored, and the answer is empty
C9_Witness ==
    /\ Completed(1) /\ max_history >= 1
    /\ FinalReply(1).content = <<>>
    /\ \E i \in DOMAIN Stored :
          Stored[i].role = "assistant" /\ Stored[i].content = <<"a">>
    /\ out[1].answer = <<>>

\* a turn with no tool calls and retrieval disabled, asked on an empty session
RoundTripCase(t) ==
    /\ Completed(t)
    /\ ~retriever_enabled
    /\ call[t].pre = <<>>
    /\ Len(call[t].replies) = 1

\* C10 as stated, on a service that keeps history (max_history >= 1): such
\* a turn returns a history of exactly the new user message followed by one
\* assistant message whose content is the answer
C10_RoundTrip ==
    \A t \in Threads :
        (RoundTripCase(t) /\ max_history >= 1) =>
            out[t].history = << [role |-> "user", content |-> call[t].prompt],
                                [role |-> "assistant", content |-> out[t].answer] >>

\* C10 as amended: with max_history >= 1 and a reply that is not blank the
\* history is the user message followed by one assistant message with the
\* answer; a blank reply is left out of the history, which then holds the
\* user message only, while the answer is that blank reply; with
\* max_history = 0 nothing is stored and history and answer are empty
C10_RoundTripNonBlank ==
    \A t \in Threads :
        RoundTripCase(t) =>
            IF max_history = 0
            THEN out[t].history = <<>> /\ out[t].answer = <<>>
            ELSE /\ out[t].answer = FinalReply(t).content
                 /\ out[t].history =
                        IF Strip(FinalReply(t).content) # <<>>
                        THEN << [role |-> "user", content |-> call[t].prompt],
                                [role |-> "assistant", content |-> out[t].answer] >>
                        ELSE << [role |-> "user", content |-> call[t].prompt] >>

\* such a turn has completed with a reply that has text
C10_Witness ==
    /\ RoundTripCase(1) /\ max_history >= 1
    /\ out[1].answer = <<"a">>
    /\ Len(out[1].history) = 2

\* the prompts of a batch that are not blank, stripped, in input order
RECURSIVE NonBlank(_)
NonBlank(prompts) ==
    IF prompts = <<>> THEN <<>>
    ELSE (IF Strip(Head(prompts)) # <<>> THEN <<Strip(Head(prompts))>> ELSE <<>>)
         \o NonBlank(Tail(prompts))

\* the turn of caller t is running inside the graph
InGraph(t) == pc[t] \in {"router", "retrieve", "assistant", "tools", "finish"}

\* C11: evaluate calls ask for the non-blank prompts of its input, stripped,
\* once each and in input order, and never for a blank one; each ask comes
\* directly after a reset; the results are one per prompt asked, in that
\* order, and on return one per non-blank prompt
C11_EvaluateAsksNonBlank ==
    /\ [](\A t \in Threads :
            ev[t].input # None =>
                LET pending == IF pc[t] = "ask" THEN <<call[t].prompt>> ELSE <<>>
                    asked == ev[t].asked
                    results == ev[t].results
                IN  /\ asked \o pending \o NonBlank(ev[t].queue) = NonBlank(ev[t].input[1])
                    /\ Len(results) = Len(asked) - (IF InGraph(t) THEN 1 ELSE 0)
                    /\ \A i \in DOMAIN results :
                          \A j \in DOMAIN results[i].history :
                              results[i].history[j].role = "user" =>
                                  results[i].history[j].content = asked[i]
                    /\ ~ev[t].active => Len(results) = Len(NonBlank(ev[t].input[1]))
                    /\ pc[t] = "ask" => Stored = <<>>)
    /\ [][\A t \in Threads :
            /\ (ev[t].active /\ pc[t] = "ask" /\ pc'[t] # "ask") =>
                  /\ pc'[t] = "router"
                  /\ call'[t].prompt = call[t].prompt
                  /\ ev'[t].asked = Append(ev[t].asked, call[t].prompt)
            /\ (ev[t].active /\ ev'[t].active /\ ev'[t].results # ev[t].results) =>
                  /\ ev'[t].results = Append(ev[t].results, out'[t])
                  /\ call[t].prompt = ev[t].asked[Len(ev[t].asked)]]_vars

\* evaluate has returned one result for a batch of an empty prompt, a blank
\* prompt and one prompt with text around blanks
C11_Witness ==
    /\ ev[1].input = Some(<< <<>>, <<" ">>, <<" ", "q", " ">> >>)
    /\ ~ev[1].active
    /\ ev[1].asked = << <<"q">> >>
    /\ Len(ev[1].results) = 1

\* the text is the prompt, alone or after retrieved context
IsPromptOrAugmented(text, prompt) ==
    \/ text = prompt
    \/ \E docs \in IndexResults : text = Augmented(combine_context(docs), prompt)

\* the number of messages of msgs with the role
RECURSIVE CountRole(_, _)
CountRole(msgs, role) ==
    IF msgs = <<>> THEN 0
    ELSE (IF Head(msgs).role = role THEN 1 ELSE 0) + CountRole(Tail(msgs), role)

\* C12: a prompt of evaluate runs as on a fresh session: its turn starts
\* from no stored message, the graph starts from the trimmed prompt alone,
\* and the model is sent no user message but the prompt and no assistant
\* message but the replies of this turn
C12_EvaluateIsolated ==
    \A t \in Threads :
        (ev[t].active /\ call[t].op = "ask") =>
            /\ call[t].pre = <<>>
            /\ call[t].history = _trim(<<HumanMessage(call[t].prompt)>>, max_history)
            /\ \A i \in DOMAIN state[t].messages :
                  state[t].messages[i].role = "user" =>
                      state[t].messages[i].content = call[t].prompt
            /\ call[t].model_input # <<>> =>
                  LET input == call[t].model_input
                  IN  /\ \A i \in DOMAIN input :
                            input[i].role = "user" =>
                                IsPromptOrAugmented(input[i].content, call[t].prompt)
                      /\ CountRole(input, "user") <= 1
                      /\ CountRole(input, "assistant") = Len(call[t].replies) - 1

\* the model has been invoked for the second prompt of a batch, the turn of
\* the first one having been stored
C12_Witness ==
    /\ ev[1].active /\ Len(ev[1].asked) = 2 /\ max_history >= 1
    /\ Len(ev[1].results[1].history) >= 2
    /\ call[1].model_input # <<>>

\* C13: reset can be called whenever a call can be made, and it leaves the
\* stored message sequence empty and the configuration as it was
C13_ResetClears ==
    /\ [][\A t \in Threads :
            (ncalls' # ncalls /\ call'[t].op = "reset") =>
                /\ Stored' = <<>>
                /\ config' = config]_vars
    /\ [](\A t \in Threads : CanCall(t) => ENABLED Reset(t))

\* reset has run on a session that held messages
C13_Witness ==
    /\ call[1].op = "reset" /\ call[1].pre # <<>>
    /\ Stored = <<>>

\* the value configure would put in force for an argument
EffectiveTemplate(template_arg) ==
    IF template_arg = None \/ Strip(template_arg[1]) = <<>>
    THEN system_prompt_template ELSE template_arg[1]

EffectiveFlag(arg, current) == IF arg = None THEN current ELSE arg[1]

\* C14: configure rebuilds the system message and the graph exactly when an
\* effective value (template, reasoning_enabled, retriever_enabled) differs
\* from the current one, and then puts the effective values in force; a call
\* whose effective values equal the current ones changes nothing
C14_RebuildIffChanged ==
    [][\A t \in Threads :
        (ncalls' # ncalls /\ call'[t].op = "configure") =>
            \A c \in BoolArgs :
              EffectiveFlag(c, retriever_enabled) = retriever_enabled' =>
                \A b \in BoolArgs :
                  EffectiveFlag(b, reasoning_enabled) = reasoning_enabled' =>
                    \A a \in TemplateArgs :
                      configure(t, [NoCall EXCEPT !.op = "configure"], a, b, c) =>
                        LET template == EffectiveTemplate(a)
                            reasoning == EffectiveFlag(b, reasoning_enabled)
                            retriever == EffectiveFlag(c, retriever_enabled)
                            differs == \/ template # system_prompt_template
                                       \/ reasoning # reasoning_enabled
                                       \/ retriever # retriever_enabled
                        IN  /\ call'[t].rebuilt <=> differs
                            /\ ~differs => service' = service
                            /\ differs =>
                                  /\ system_prompt_template' = template
                                  /\ reasoning_enabled' = reasoning
                                  /\ retriever_enabled' = retriever
                                  /\ system_message' = SystemMessage(template)
                                  /\ graph' = [retriever |-> retriever,
                                               system_message |-> SystemMessage(template),
                                               reasoning |-> reasoning]]_vars

\* configure has rebuilt the graph for another template
C14_Witness ==
    /\ call[1].op = "configure" /\ call[1].rebuilt
    /\ system_prompt_template = <<"T">>
    /\ graph.system_message = SystemMessage(<<"T">>)

\* C15: in configure a field that is not supplied keeps its current value
\* and an empty or blank template is no change, also for the configuration
\* values of a request to the chat endpoint
C15_UnsetKeepsCurrent ==
    [][\A t \in Threads :
        (ncalls' # ncalls /\ call'[t].op = "chat") =>
            \A p \in Prompts, a \in TemplateArgs, b \in BoolArgs, c \in BoolArgs,
               g \in GroundTruthArgs :
                Chat(t, p, a, b, c, g) =>
                    /\ (a = None \/ Strip(a[1]) = <<>>) =>
                          system_prompt_template' = system_prompt_template
                    /\ b = None => reasoning_enabled' = reasoning_enabled
                    /\ c = None => retriever_enabled' = retriever_enabled]_vars

\* C16: every step of a turn acts on the retriever_enabled value in force
\* when the turn started, also when configure runs on the shared instance
\* while the turn is in flight
C16_ConfigFixedInTurn ==
    \A t \in Threads : \A v \in call[t].seen : v = call[t].cfg

\* C17: in a turn with retrieval disabled the index is not invoked, the
\* retrieved documents stay empty, and the graph of the turn holds no
\* retriever
C17_DisabledNeverRetrieves ==
    \A t \in Threads :
        (call[t].op = "ask" /\ ~retriever_enabled) =>
            /\ ~call[t].index_called
            /\ state[t].retrieved_docs = <<>>
            /\ ~running[t].retriever
            /\ ~ENABLED RetrievalFailure(t)

\* a turn with retrieval disabled has completed after a tool round
C17_Witness ==
    /\ Completed(1) /\ call[1].op = "ask" /\ ~retriever_enabled
    /\ call[1].rounds = 1 /\ max_history >= 1

\* C18: in a turn with retrieval disabled the router makes no model call
\* and decides to proceed: the step after it is the model invocation of the
\* loop, and no model call can fail in the router
C18_DisabledRouterProceeds ==
    \A t \in Threads :
        (call[t].op = "ask" /\ ~retriever_enabled) =>
            /\ ~call[t].router_called
            /\ call[t].router_reply = None
            /\ pc[t] # "retrieve"
            /\ (InGraph(t) /\ pc[t] # "router") =>
                  state[t].router_decision = Some("assistant")
            /\ Len(call[t].trace) >= 2 => call[t].trace[2] = "assistant"
            /\ pc[t] = "router" => ~ENABLED ModelInvocationFailure(t)

\* the router has run with retrieval disabled on a prompt with text and the
\* model is about to be invoked
C18_Witness ==
    /\ call[1].op = "ask" /\ ~retriever_enabled
    /\ call[1].trace = <<"router">> /\ pc[1] = "assistant"
    /\ state[1].messages # <<>>

\* the raw text holds the word retrieve in any case
ContainsRetrieve(raw) == \E i \in DOMAIN raw : raw[i] \in {"retrieve", "Retrieve"}

\* C19: whatever the router model replies, the router decides retrieve or
\* proceed and the turn goes on: a reply that is a JSON object is decided
\* by its decision key, any other reply is decided retrieve exactly when
\* its raw text holds "retrieve" in any case
C19_RouterToleratesReply ==
    \A t \in Threads :
        call[t].router_reply # None =>
            LET reply == call[t].router_reply[1]
                retrieve ==
                    IF reply.json = "object"
                    THEN Strip(reply.decision) \in { <<"retrieve">>, <<"Retrieve">> }
                    ELSE ContainsRetrieve(reply.raw)
            IN  /\ state[t].router_decision =
                       Some(IF retrieve THEN "retrieve_requirements" ELSE "assistant")
                /\ pc[t] = IF retrieve THEN "retrieve" ELSE "assistant"
                /\ out[t].outcome = "none"

\* the router has decided retrieve from a reply that is valid JSON but not
\* an object and spells the word with a capital
C19_Witness ==
    /\ call[1].router_reply # None
    /\ call[1].router_reply[1].json = "other"
    /\ call[1].router_reply[1].raw = <<"Retrieve">>
    /\ pc[1] = "retrieve"

\* C20: a prompt that is empty after stripping is rejected before any model
\* call and without a change of the stored conversation, by ask as by the
\* chat endpoint
C20_BlankPromptRejected ==
    \A t \in Threads :
        (call[t].op \in {"ask", "chat"} /\ Strip(call[t].prompt) = <<>>) =>
            /\ pc[t] = "idle"
            /\ out[t].outcome = "invalid"
            /\ call[t].replies = <<>>
            /\ ~call[t].router_called
            /\ Stored = call[t].pre

FailuresDelivered(msgs, outcomes) ==
    LET n == Len(outcomes)
    IN  /\ Len(msgs) > n
        /\ msgs[Len(msgs) - n].role = "assistant"
        /\ Len(msgs[Len(msgs) - n].tool_calls) = n
        /\ \A k \in 1..n :
              LET result == msgs[Len(msgs) - n + k]
              IN  /\ result.role = "tool"
                  /\ result.tool_call_id = k
                  /\ outcomes[k] = "error" =>
                        /\ Len(result.content) = 2
                        /\ result.content[1] = "Error:"
                        /\ result.content[2] = msgs[Len(msgs) - n].tool_calls[k]

IsSuffix(suffix, seq) ==
    /\ Len(suffix) <= Len(seq)
    /\ suffix = SubSeq(seq, Len(seq) - Len(suffix) + 1, Len(seq))

\* C29: _trim(messages, n) is the longest suffix of messages of length at
\* most 2n: for n > 0 it has at most 2n elements, is a suffix of the input
\* and is the whole input when that fits; for n <= 0 it is empty
C29_TrimLongestSuffix ==
    \A t \in Threads :
        call[t].op = "_trim" =>
            LET messages == call[t].args[1]
                n == call[t].args[2]
                result == out[t].value
            IN  /\ n <= 0 => result = <<>>
                /\ n > 0 =>
                      /\ Len(result) <= 2 * n
                      /\ IsSuffix(result, messages)
                      /\ Len(messages) <= 2 * n => result = messages
                      /\ Len(messages) > 2 * n => Len(result) = 2 * n

\* _trim has cut a sequence longer than the limit down to its last two
\* messages, which differ from its first two
C29_Witness ==
    /\ call[1].op = "_trim"
    /\ call[1].args[2] = 1
    /\ Len(call[1].args[1]) = 3
    /\ call[1].args[1][1] # call[1].args[1][3]
    /\ out[1].value = SubSeq(call[1].args[1], 2, 3)

\* the roles and contents of a message sequence, in order
RolesAndContents(msgs) ==
    [i \in DOMAIN msgs |-> [role |-> msgs[i].role, content |-> msgs[i].content]]

\* C30: _condense_history is idempotent: condensing what it returned, with
\* the same n, gives the same roles and contents in the same order
C30_CondenseIdempotent ==
    \A t \in Threads :
        call[t].op = "_condense_history" =>
            LET n == call[t].args[2]
                once == out[t].value
            IN  RolesAndContents(_condense_history(once, n)) = RolesAndContents(once)

\* _condense_history has dropped tool plumbing and an unanswered prompt and
\* trimmed the rest, returning less than it was given
C30_Witness ==
    /\ call[1].op = "_condense_history"
    /\ call[1].args[2] = 1
    /\ call[1].args[1] = << HumanMessage(<<"u">>), HumanMessage(<<"u">>),
                            AIMessage(<<>>, <<"t1">>), ToolMessage(<<"t1">>, 1) >>
    /\ out[1].value = << HumanMessage(<<"u">>), AIMessage(<<>>, <<>>) >>

\* the call of grade caller t made: its judge outcome, and what it returned
Graded(t) == call[t].op = "grade"
JudgeOf(t) == call[t].args[5]
EvaluationOf(t) == out[t].value.evaluation

\* C23: if the judge model invocation fails, grade does not raise: it
\* returns a result that carries the error and has no scores and no total
C23_JudgeFailureReturned ==
    \A t \in Threads :
        (Graded(t) /\ JudgeOf(t).raises) =>
            /\ out[t].outcome = "ok"
            /\ EvaluationOf(t).error # None
            /\ EvaluationOf(t).scores = None
            /\ EvaluationOf(t).total = None

\* grade, asked for the developer payload too, has returned after the judge
\* call raised
C23_Witness ==
    /\ Graded(1) /\ JudgeOf(1).raises
    /\ call[1].args[4]
    /\ out[1].outcome = "ok"
    /\ EvaluationOf(1).error = Some(<<"exc">>)
    /\ out[1].value.developer # None

\* the raw value the reply of the call gives key, as _parse_scores looks it
\* up: None, or <<value>>
RawValueOf(t, key) ==
    LET reply == JudgeOf(t).reply
        object == _extract_json_object(reply)
    IN  Lookup(IF object # None /\ object[1] # <<>> THEN object[1] ELSE reply.matches, key)

\* C25: every score of a grade result is clamped to [0,1] and rounded to
\* one decimal: a multiple of 0.1 between 0.0 and 1.0, 1.0 for a value above
\* 1, 0.0 for a negative one, and within 0.05 of a value in between
C25_ScoresClampedRounded ==
    \A t \in Threads :
        (Graded(t) /\ out[t].outcome = "ok" /\ EvaluationOf(t).scores # None) =>
            LET scores == EvaluationOf(t).scores[1]
            IN  \A key \in DOMAIN scores :
                    /\ scores[key] \in 0..100
                    /\ scores[key] % 10 = 0
                    /\ LET raw == RawValueOf(t, key)[1]
                       IN  raw.kind \in {"number", "string"} =>
                              /\ raw.v > 100 => scores[key] = 100
                              /\ raw.v < 0 => scores[key] = 0
                              /\ raw.v \in 0..100 =>
                                    /\ scores[key] - raw.v <= 5
                                    /\ raw.v - scores[key] <= 5

\* a result with a value above 1 clamped to 1.0, a negative one to 0.0 and
\* 0.85 rounded to 0.8
C25_Witness ==
    /\ Graded(1) /\ out[1].outcome = "ok"
    /\ JudgeOf(1).reply.object =
           << <<"accuracy", Number(150)>>, <<"relevance", Number(0 - 30)>>,
              <<"coherence", Number(85)>> >>
    /\ EvaluationOf(1).scores =
           Some([key \in {"accuracy", "relevance", "coherence"} |->
                    CASE key = "accuracy" -> 100 [] key = "relevance" -> 0 [] OTHER -> 80])

\* the keys an error message names after header, up to the next header
RECURSIVE NamedAfter(_, _, _)
NamedAfter(message, header, on) ==
    IF message = <<>> THEN {}
    ELSE IF Head(message) = header THEN NamedAfter(Tail(message), header, TRUE)
    ELSE IF Head(message) \in {"Invalid numeric value for:", "Missing scores for:",
                                "Grader response did not contain usable scores."}
         THEN NamedAfter(Tail(message), header, FALSE)
    ELSE (IF on THEN {Head(message)} ELSE {}) \cup NamedAfter(Tail(message), header, on)

C27_LayeredParse ==
    \A t \in Threads :
        (Graded(t) /\ out[t].outcome = "ok" /\ ~JudgeOf(t).raises /\ call[t].args[4]) =>
            LET reply == JudgeOf(t).reply
                parsed == _parse_scores(reply)
                parser == out[t].value.developer[1].parser[1]
            IN  /\ parsed.path = "regex" <=>
                      (reply.direct # "object" /\ reply.span # "object")
                /\ parser.used_regex_fallback <=> parsed.path = "regex"

\* the grading of a graded chat request failed: the judge call raised, or
\* its reply gave no usable score
GradingFailed(judge) ==
    \/ judge.raises
    \/ _parse_scores(judge.reply).raised
    \/ DOMAIN _parse_scores(judge.reply).scores = {}

\* C24: grading is isolated from the chat turn: when the grading of a chat
\* request with a ground truth fails, the request still returns the answer
\* and the history ask returned, the evaluation reports the failure in its
\* error field, and the stored conversation is what ask committed
C24_GradingIsolated ==
    [][\A t \in Threads :
          (pc[t] = "grade" /\ pc'[t] = "idle" /\ GradingFailed(call'[t].args[1])) =>
              /\ out'[t].outcome = "ok"
              /\ out'[t].answer = out[t].answer
              /\ out'[t].history = out[t].history
              /\ out'[t].value.evaluation.error # None
              /\ out'[t].value.evaluation.scores = None
              /\ chat_state' = chat_state]_vars

\* ------------------------------------------- ask with and without the view
\* the stored messages a pair of calls starts from: none, or one earlier
\* turn as ask stores it (line 395)
PriorStates == { <<>>, <<HumanMessage(<<"p">>), AIMessage(<<"a">>, <<>>)>> }

\* the service with an earlier turn behind it, within its limit
InitView ==
    /\ \E stored \in PriorStates : InitStored(stored)
    /\ Len(chat_state.messages) <= 2 * max_history
    /\ concurrent = TRUE
    /\ ncalls = 0

\* ask(prompt, developer_view=...) is called (line 367), each caller once,
\* the second when the first has called; the final state and the stored
\* messages of the call are kept for comparison
AskView(t, prompt, developer_view) ==
    /\ pc[t] = "idle"
    /\ call[t].op = "none"
    /\ t = 1 \/ call[1].op = "ask"
    /\ pc' = [pc EXCEPT ![t] = "ask"]
    /\ call' = [call EXCEPT ![t] =
                    [NoCall EXCEPT !.op = "ask", !.prompt = prompt,
                                   !.developer_view = developer_view,
                                   !.observed = TRUE]]
    /\ out' = [out EXCEPT ![t] = NoOut]
    /\ ncalls' = ncalls + 1
    /\ UNCHANGED <<service, concurrent, client, state, running, ev>>

\* the two calls read the stored messages before either stream starts
BothEntered == \A u \in Threads : call[u].op = "ask" /\ pc[u] # "ask"

IsPrefix(s, whole) == Len(s) <= Len(whole) /\ s = SubSeq(whole, 1, Len(s))

\* the graph state of the second call goes the way of the final state of
\* the first: the router, the index, the model and the tools answer the
\* second call as they answered the first
Replays(graph_state, final_state) ==
    /\ IsPrefix(graph_state.messages, final_state.messages)
    /\ graph_state.router_decision \in { None, final_state.router_decision }
    /\ graph_state.router_query \in { None, final_state.router_query }
    /\ graph_state.retrieved_docs \in { <<>>, final_state.retrieved_docs }

\* the stream of the second call runs when the first call has returned, and
\* is given the responses the first was given
NextView ==
    \/ \E t \in Threads, prompt \in Prompts, developer_view \in BOOLEAN :
          AskView(t, prompt, developer_view)
    \/ \E t \in Threads : call[1].op = "ask" /\ call[2].op = "ask" /\ AskEnter(t)
    \/ \E t \in Threads :
          /\ BothEntered
          /\ t = 2 => pc[1] = "idle" /\ call[1].final_state # None
          /\ \/ RouterNode(t)
             \/ RetrieveNode(t)
             \/ AssistantNode(t)
             \/ ToolsNode(t)
             \/ ModelInvocationFailure(t)
             \/ RetrievalFailure(t)
             \/ AskFinish(t)
          /\ t = 2 => Replays(state'[2], call[1].final_state[1])

SpecView == InitView /\ [][NextView]_vars

\* C28: the developer trace is purely observational: two calls of ask that
\* start from the same stored messages with the same prompt, one with
\* developer_view and one without, and get the same router decision and
\* query, documents, model replies and tool results, take the same steps,
\* return the same answer and history and store the same messages
Returned(t) == pc[t] = "idle" /\ call[t].op = "ask" /\ out[t].outcome = "ok"

SameResponses(t, u) ==
    /\ call[t].pre = call[u].pre
    /\ call[t].prompt = call[u].prompt
    /\ call[t].final_state = call[u].final_state
    /\ call[t].replies = call[u].replies

C28_ViewObservational ==
    \A t, u \in Threads :
        /\ Returned(t) /\ Returned(u)
        /\ call[t].developer_view /\ ~call[u].developer_view
        /\ SameResponses(t, u)
        => /\ call[t].trace = call[u].trace
           /\ out[t].answer = out[u].answer
           /\ out[t].history = out[u].history
           /\ call[t].committed = call[u].committed
           /\ out[t].developer_view # None
           /\ out[u].developer_view = None

\* a traced and an untraced call with the same responses, a tool round among
\* them, have returned
C28_Witness ==
    /\ Returned(1) /\ Returned(2)
    /\ call[1].developer_view /\ ~call[2].developer_view
    /\ SameResponses(1, 2)
    /\ call[1].pre # <<>>
    /\ call[1].rounds > 0
    /\ out[1].answer # <<>>
    /\ Len(out[1].developer_view[1].stream_events) > 1

\* C31: _condense_history pairs each user message with the first assistant
\* message that follows it, keeps an assistant message standalone only when
\* no user message came before it, discards every other message (tool
\* plumbing and the further assistant messages of an answered user message)
\* and loses no user message of its input before it trims; stated for the
\* calls whose limit leaves the condensed messages untrimmed
C31_CondensePairsFirst ==
    \A t \in Threads :
        call[t].op = "_condense_history" /\ Len(call[t].args[1]) <= 2 * call[t].args[2] =>
            LET msgs == call[t].args[1]
                result == out[t].value
            IN  /\ \A i \in DOMAIN result : result[i].role \in { "user", "assistant" }
                /\ CountRole(result, "user") = CountRole(msgs, "user")
                /\ \A i \in 2..Len(result) :
                       result[i].role = "assistant" /\ result[i - 1].role = "assistant"
                           => \A j \in 1..i : result[j].role # "user"

\* a is b with some of its elements left out
RECURSIVE IsSubsequence(_, _)
IsSubsequence(a, b) ==
    IF a = <<>> THEN TRUE
    ELSE IF b = <<>> THEN FALSE
    ELSE IF Head(a) = Head(b) THEN IsSubsequence(Tail(a), Tail(b))
    ELSE IsSubsequence(a, Tail(b))

\* the messages of the stored state a caller is shown: the user messages and
\* the assistant messages with text
Shown(messages) ==
    { i \in DOMAIN messages :
          \/ messages[i].role = "user"
          \/ messages[i].role = "assistant" /\ Strip(messages[i].content) # <<>> }

\* C32: every entry of the history ask returns has role user or assistant,
\* the entries are in stored order, every user message and every assistant
\* message with text of the stored state has its entry, and no assistant
\* entry is blank
C32_HistoryProjection ==
    \A t \in Threads :
        Completed(t) /\ call[t].op = "ask" =>
            LET history == out[t].history
                stored == chat_state.messages
            IN  /\ \A i \in DOMAIN history :
                       /\ history[i].role \in { "user", "assistant" }
                       /\ history[i].role = "assistant" => Strip(history[i].content) # <<>>
                /\ IsSubsequence(history, RolesAndContents(stored))
                /\ Len(history) = Cardinality(Shown(stored))

\* a tool turn has returned: the stored state holds the blank tool-planning
\* message, the history leaves it out and ends with the answer
C32_Witness ==
    /\ Completed(1) /\ call[1].op = "ask"
    /\ \E i \in DOMAIN chat_state.messages :
           chat_state.messages[i].role = "assistant" /\ chat_state.messages[i].content = <<>>
    /\ Len(out[1].history) >= 2
    /\ out[1].history[Len(out[1].history)] = [role |-> "assistant", content |-> <<"a">>]
    /\ out[1].history[Len(out[1].history) - 1].role = "user"

\* the model has just been invoked by caller t: what it was sent after the
\* system message, and the messages of the graph state at that moment
JustInvoked(t) == pc[t] \in { "tools", "finish" }
InputOf(t) == Tail(call[t].model_input)
SentOf(t) == SubSeq(state[t].messages, 1, Len(state[t].messages) - 1)

\* C33: the retrieved context is prefixed to the model input only on the
\* invocations whose last input message is the user message; on every
\* invocation after a tool round the last message is a tool result and the
\* model input holds no retrieved context at all
C33_ContextOnlyOnUserTurn ==
    \A t \in Threads :
        JustInvoked(t) =>
            LET input == InputOf(t)
                sent == SentOf(t)
                n == Len(sent)
                context == combine_context(state[t].retrieved_docs)
            IN  /\ Len(input) = n
                /\ \A i \in 1..n :
                       CarriesContext(input[i].content) =>
                           /\ i = n
                           /\ sent[n].role = "user"
                           /\ call[t].rounds = 0
                           /\ input[n].content = Augmented(context, sent[n].content)
                /\ call[t].rounds > 0 =>
                       /\ sent[n].role = "tool"
                       /\ input = sent
                /\ (n > 0 /\ sent[n].role = "user" /\ retriever_enabled /\ context # <<>>) =>
                       CarriesContext(input[n].content)

\* after a turn whose first model input carried the retrieved context, the
\* model has been invoked again after a tool round, without the context
C33_Witness ==
    /\ JustInvoked(1)
    /\ call[1].rounds = 1
    /\ call[1].index_called
    /\ retriever_enabled
    /\ combine_context(state[1].retrieved_docs) = <<"d">>
    /\ InputOf(1)[Len(InputOf(1))].role = "tool"
    /\ \E i \in DOMAIN InputOf(1) : InputOf(1)[i] = HumanMessage(call[1].prompt)

\* the positions of a step in the trace of a turn
StepsAt(trace, step) == { i \in DOMAIN trace : trace[i] = step }

\* C34: the router runs first in every turn, before any retrieval, and never
\* again, so the router prompt never lists a retrieved document: its
\* document summary is '[No documents retrieved yet]' whenever the router
\* model is called
C34_RouterSeesNoDocuments ==
    \A t \in Threads :
        /\ pc[t] = "router" => call[t].trace = <<>> /\ state[t].retrieved_docs = <<>>
        /\ call[t].op = "ask" =>
              /\ StepsAt(call[t].trace, "router") \subseteq {1}
              /\ StepsAt(call[t].trace, "retrieve") \subseteq {2}
              /\ call[t].trace # <<>> => call[t].trace[1] = "router"
        /\ call[t].router_documents \in { None, Some(<<"[No documents retrieved yet]">>) }
        /\ call[t].router_called => call[t].router_documents # None

\* a turn has called the router model, retrieved documents and gone through
\* a tool round and a second model invocation
C34_Witness ==
    /\ call[1].router_called
    /\ call[1].router_documents = Some(<<"[No documents retrieved yet]">>)
    /\ call[1].index_called
    /\ state[1].retrieved_docs # <<>>
    /\ call[1].trace = <<"router", "retrieve", "assistant", "tools", "assistant">>

\* ------------------------------------------------- requests without grading
\* requests to the chat endpoint that carry no ground truth, one at a time
NextChat ==
    \E t \in Threads :
        \/ /\ CanCall(t)
           /\ \E prompt \in Prompts, a \in TemplateArgs, b \in BoolArgs, c \in BoolArgs :
                  Chat(t, prompt, a, b, c, None)
        \/ AskEnter(t)
        \/ RouterNode(t)
        \/ RetrieveNode(t)
        \/ AssistantNode(t)
        \/ ToolsNodeReturns(t)
        \/ ModelInvocationFailure(t)
        \/ RetrievalFailure(t)
        \/ AskFinish(t)

SpecChat == Init /\ [][NextChat]_vars

\* what a request to the chat endpoint with a blank prompt and these
\* configuration values does, by the claim: ask is not called, the stored
\* messages stay, the values are in force and the graph is rebuilt if they
\* changed anything
RejectedConfigured(t, a, b, c) ==
    /\ out'[t].outcome = "invalid"
    /\ pc'[t] = "idle"
    /\ call'[t].trace = <<>>
    /\ chat_state' = chat_state
    /\ state' = state
    /\ (a # None /\ Strip(a[1]) # <<>>) => system_prompt_template' = a[1]
    /\ b # None => reasoning_enabled' = b[1]
    /\ c # None => retriever_enabled' = c[1]
    /\ call'[t].rebuilt <=>
           <<system_prompt_template, reasoning_enabled, retriever_enabled>>'
               # <<system_prompt_template, reasoning_enabled, retriever_enabled>>
    /\ system_message' = _build_system_message(system_prompt_template')
    /\ graph' = _build_graph(retriever_enabled', system_message', reasoning_enabled')

\* C35: the chat endpoint configures the shared service before it looks at
\* the prompt: a request rejected with 'prompt is required' does not call
\* ask and leaves the stored messages alone, while the configuration values
\* it carried are in force and the graph has been rebuilt if they changed
\* anything; no request with a blank prompt can do otherwise
C35_ConfiguredBeforeRejected ==
    \A t \in Threads :
        CanCall(t) =>
            \A a \in TemplateArgs, b \in BoolArgs, c \in BoolArgs,
               p \in { q \in Prompts : Strip(q) = <<>> } :
                ~ENABLED (Chat(t, p, a, b, c, None) /\ ~RejectedConfigured(t, a, b, c))

\* a request with a blank prompt has been rejected after an earlier turn: the
\* stored messages are those of the turn, the configuration is the one the
\* rejected request carried and the graph was rebuilt for it
C35_Witness ==
    /\ call[1].op = "chat" /\ out[1].outcome = "invalid" /\ pc[1] = "idle"
    /\ call[1].rebuilt
    /\ system_prompt_template = <<"T">>
    /\ reasoning_enabled
    /\ graph = _build_graph(retriever_enabled, SystemMessage(<<"T">>), TRUE)
    /\ chat_state.messages # <<>>
    /\ chat_state.messages = call[1].pre

\* ------------------------------------------------- the evaluate endpoint
\* _normalise_system_prompt (backend.py lines 25-29)
_normalise_system_prompt(candidate) ==
    IF candidate = None THEN DEFAULT_SYSTEM_PROMPT_TEMPLATE
    ELSE IF Strip(candidate[1]) # <<>> THEN Strip(candidate[1])
    ELSE DEFAULT_SYSTEM_PROMPT_TEMPLATE

\* _normalise_bool (backend.py lines 32-35)
_normalise_bool(value, default) == IF value = None THEN default ELSE value[1]

\* ChatService.__init__ (lines 154-169): a service of its own
ChatService(limit, template, reasoning, retriever_on) ==
    [max_history |-> limit,
     chat_state |-> [messages |-> <<>>],
     system_prompt_template |-> template,
     reasoning_enabled |-> reasoning,
     retriever_enabled |-> retriever_on,
     system_message |-> _build_system_message(template),
     graph |-> _build_graph(retriever_on, _build_system_message(template), reasoning)]

\* the prompts of the batch that are not blank, as given (line 127)
RECURSIVE cleaned_prompts(_)
cleaned_prompts(prompts) ==
    IF prompts = <<>> THEN <<>>
    ELSE (IF Strip(Head(prompts)) # <<>> THEN <<Head(prompts)>> ELSE <<>>)
         \o cleaned_prompts(Tail(prompts))

\* the replies of the model over one run of the graph: tool-planning replies,
\* as many as there are tool rounds, then the final reply
ReplyRuns ==
    { run \in SeqsUpTo(ModelReplies, MaxRounds + 1) :
          /\ run # <<>>
          /\ run[Len(run)].tool_calls = <<>>
          /\ \A i \in 1..(Len(run) - 1) : run[i].tool_calls # <<>> }

\* the messages of the graph state when the stream of a run ends: each
\* reply appended, the results of its tool calls after it
RECURSIVE RunGraph(_, _)
RunGraph(messages, run) ==
    IF run = <<>> THEN messages
    ELSE LET reply == Head(run)
             calls == reply.tool_calls
         IN  RunGraph(messages \o <<reply>>
                          \o ToolResults(calls, [k \in 1..Len(calls) |-> "ok"]),
                      Tail(run))

\* the values of the requests: a chat prompt that builds up the shared
\* session, a template given or not, a flag switched off or not given
SweepPrompts == { <<"p">> }
SweepTemplateArgs == { None, Some(<<"T">>) }
SweepBoolArgs == { None, Some(FALSE) }

\* POST /api/evaluate (backend.py lines 106-125): 400 unless some prompt is
\* not blank, else a ChatService of its own with the max_history of the
\* shared one and the normalised configuration of the request
EvaluateRequest(t, prompts, template_arg, reasoning_arg, retriever_arg) ==
    /\ CanCall(t)
    /\ call' = [call EXCEPT ![t] =
                    [NoCall EXCEPT !.op = "api_evaluate", !.pre = chat_state.messages]]
    /\ IF cleaned_prompts(prompts) = <<>>
       THEN /\ out' = [out EXCEPT ![t] = [NoOut EXCEPT !.outcome = "invalid"]]
            /\ ev' = [ev EXCEPT ![t] = NoEval]
            /\ UNCHANGED pc
       ELSE /\ out' = [out EXCEPT ![t] = NoOut]
            /\ ev' = [ev EXCEPT ![t] =
                          [NoEval EXCEPT
                               !.input = Some(prompts),
                               !.queue = cleaned_prompts(prompts),
                               !.service =
                                   Some(ChatService(
                                       max_history,
                                       _normalise_system_prompt(template_arg),
                                       _normalise_bool(reasoning_arg, FALSE),
                                       _normalise_bool(retriever_arg, TRUE)))]]
            /\ pc' = [pc EXCEPT ![t] = "sweep"]
    /\ ncalls' = ncalls + 1
    /\ UNCHANGED <<service, concurrent, client, state, running>>

\* a variant of the sweep that stores each turn in the shared session too
SweepStep_on_shared(t) ==
    /\ pc[t] = "sweep"
    /\ ev[t].queue # <<>>
    /\ LET evaluation_service == ev[t].service[1]
           clean_prompt == CleanPrompt(Head(ev[t].queue))
           history == _trim(<<HumanMessage(clean_prompt)>>, evaluation_service.max_history)
       IN  \E run \in ReplyRuns :
              LET condensed == _condense_history(RunGraph(history, run),
                                                 evaluation_service.max_history)
                  response == [NoOut EXCEPT !.outcome = "ok",
                                            !.answer = AnswerOf(condensed),
                                            !.history = HistoryPayload(condensed)]
              IN  /\ ev' = [ev EXCEPT
                              ![t].queue = Tail(@),
                              ![t].asked = Append(@, clean_prompt),
                              ![t].results = Append(@, response),
                              ![t].service =
                                  Some([evaluation_service EXCEPT
                                            !.chat_state = [messages |-> condensed]])]
                  /\ chat_state' = [messages |-> condensed]
    /\ UNCHANGED <<config, concurrent, client, ncalls, pc, state, running, call, out>>

\* evaluation_service.evaluate (backend.py line 128, chat_graph.py lines
\* 459-466), one prompt of the batch: reset and ask on the service of the
\* request, the graph run from the trimmed prompt to the end of its stream
SweepStep(t) ==
    /\ pc[t] = "sweep"
    /\ ev[t].queue # <<>>
    /\ LET evaluation_service == ev[t].service[1]
           clean_prompt == CleanPrompt(Head(ev[t].queue))
           history == _trim(<<HumanMessage(clean_prompt)>>, evaluation_service.max_history)
       IN  \E run \in ReplyRuns :
              LET condensed == _condense_history(RunGraph(history, run),
                                                 evaluation_service.max_history)
                  response == [NoOut EXCEPT !.outcome = "ok",
                                            !.answer = AnswerOf(condensed),
                                            !.history = HistoryPayload(condensed)]
              IN  ev' = [ev EXCEPT
                           ![t].queue = Tail(@),
                           ![t].asked = Append(@, clean_prompt),
                           ![t].results = Append(@, response),
                           ![t].service =
                               Some([evaluation_service EXCEPT
                                         !.chat_state = [messages |-> condensed]])]
    /\ UNCHANGED <<service, concurrent, client, ncalls, pc, state, running, call, out>>

\* a model or index call of the sweep raises: nothing catches it and the
\* request fails
SweepRaises(t) ==
    /\ pc[t] = "sweep"
    /\ ev[t].queue # <<>>
    /\ pc' = [pc EXCEPT ![t] = "idle"]
    /\ out' = [out EXCEPT ![t] = [NoOut EXCEPT !.outcome = "error"]]
    /\ ev' = [ev EXCEPT ![t].service = None]
    /\ UNCHANGED <<service, concurrent, client, ncalls, state, running, call>>

\* backend.py lines 129-145: the body with the configuration of the request
\* and one result per prompt
SweepFinish(t) ==
    /\ pc[t] = "sweep"
    /\ ev[t].queue = <<>>
    /\ pc' = [pc EXCEPT ![t] = "idle"]
    /\ out' = [out EXCEPT ![t] =
                   [NoOut EXCEPT
                        !.outcome = "ok",
                        !.value =
                            [configuration |->
                                 [system_prompt_template |->
                                      ev[t].service[1].system_prompt_template,
                                  reasoning_enabled |-> ev[t].service[1].reasoning_enabled,
                                  retriever_enabled |-> ev[t].service[1].retriever_enabled],
                             results |->
                                 [k \in DOMAIN ev[t].results |->
                                      [prompt |-> cleaned_prompts(ev[t].input[1])[k],
                                       answer |-> ev[t].results[k].answer,
                                       history |-> ev[t].results[k].history]]]]]
    /\ ev' = [ev EXCEPT ![t].service = None]
    /\ UNCHANGED <<service, concurrent, client, ncalls, state, running, call>>

\* the backend, one request at a time: chat requests and evaluation sweeps
NextSweep ==
    \E t \in Threads :
        \/ /\ CanCall(t)
           /\ \E prompt \in SweepPrompts, a \in SweepTemplateArgs, c \in SweepBoolArgs :
                  Chat(t, prompt, a, None, c, None)
        \/ /\ CanCall(t)
           /\ \E prompts \in Batches, a \in SweepTemplateArgs, b \in SweepBoolArgs,
                 c \in SweepBoolArgs :
                  EvaluateRequest(t, prompts, a, b, c)
        \/ SweepStep(t)
        \/ SweepRaises(t)
        \/ SweepFinish(t)
        \/ AskEnter(t)
        \/ RouterNode(t)
        \/ RetrieveNode(t)
        \/ AssistantNode(t)
        \/ ToolsNodeReturns(t)
        \/ AskFinish(t)

SpecSweep == Init /\ [][NextSweep]_vars

\* a step of a request to the evaluate endpoint made by caller t
SweepActs(t) ==
    /\ call'[t].op = "api_evaluate"
    /\ ncalls' # ncalls \/ pc[t] = "sweep"

\* C36: the evaluate endpoint runs the batch on a ChatService of its own: no
\* step of an evaluation sweep changes the stored messages or the
\* configuration of the shared chat session, and the turns of the sweep are
\* stored in the service of the request
C36_SweepIsolated ==
    [][\A t \in Threads :
        SweepActs(t) =>
            /\ UNCHANGED <<chat_state, max_history, system_prompt_template,
                           reasoning_enabled, retriever_enabled, system_message, graph>>
            /\ (pc[t] = "sweep" /\ pc'[t] = "sweep") =>
                   /\ ev'[t].service # None
                   /\ Len(ev'[t].results) = Len(ev[t].results) + 1
                   /\ ev'[t].service[1].max_history = max_history]_vars

\* a sweep of two prompts has returned its answers under the default
\* configuration while the shared session keeps its stored turn and its own
\* template and retriever setting
C36_Witness ==
    /\ call[1].op = "api_evaluate" /\ out[1].outcome = "ok" /\ pc[1] = "idle"
    /\ Len(out[1].value.results) = 2
    /\ out[1].value.results[2].answer = <<"a">>
    /\ out[1].value.configuration.system_prompt_template = DEFAULT_SYSTEM_PROMPT_TEMPLATE
    /\ out[1].value.configuration.retriever_enabled
    /\ system_prompt_template = <<"T">>
    /\ ~retriever_enabled
    /\ chat_state.messages # <<>>
    /\ chat_state.messages = call[1].pre

\* ------------------------------------------------------- overlapping calls
\* two callers on the shared instance: the first asks; when its stream has
\* ended and it has not yet stored its turn, the second asks or resets
NextOverlap ==
    \/ ncalls = 0 /\ \E prompt \in Prompts : Ask(1, prompt)
    \/ /\ pc[1] = "finish"
       /\ call[2].op = "none"
       /\ \/ \E prompt \in Prompts : Ask(2, prompt)
          \/ Reset(2)
    \/ \E t \in Threads :
          \/ RouterNode(t)
          \/ RetrieveNode(t)
          \/ AssistantNode(t)
          \/ ToolsNodeReturns(t)
          \/ AskFinish(t)

SpecOverlap == InitView /\ [][NextOverlap]_vars

\* caller t stores its turn in this step
Commits(t) == pc[t] = "finish" /\ pc'[t] # "finish"

\* C37: ask takes the stored messages when it starts and replaces the whole
\* stored state when it ends, whatever has been stored in between: what it
\* stores is made of its own snapshot, its prompt and the messages of its
\* own run only, so the turn another ask stored meanwhile is overwritten
\* and a reset made meanwhile is undone
C37_LastCommitWins ==
    [][\A t \in Threads :
        Commits(t) =>
            /\ call[t].history =
                   _trim(call[t].pre \o <<HumanMessage(call[t].prompt)>>, max_history)
            /\ IsPrefix(call[t].history, state[t].messages)
            /\ chat_state'.messages = _condense_history(state[t].messages, max_history)
            /\ chat_state'.messages =
                   _condense_history(
                       call[t].pre \o <<HumanMessage(call[t].prompt)>>
                           \o NewMessages(call[t].history, state[t].messages),
                       max_history)
            /\ CountRole(chat_state'.messages, "user")
                   <= CountRole(call[t].pre, "user") + 1]_vars

\* both callers have started from the same stored turn and have answered;
\* the second stored its turn first and the first has overwritten it: the
\* stored state holds the earlier turn and one new turn, not two
C37_Witness ==
    /\ Completed(1) /\ Completed(2)
    /\ call[1].op = "ask" /\ call[2].op = "ask"
    /\ call[1].pre = call[2].pre
    /\ call[1].pre # <<>>
    /\ max_history = MaxHistoryBound
    /\ out[2].answer = <<"a">>
    /\ out[1].answer = <<" ">>
    /\ AnswerOf(chat_state.messages) = <<" ">>
    /\ CountRole(chat_state.messages, "user") = CountRole(call[1].pre, "user") + 1

\* the score of a criterion in a result, 0 when the result has none for it
ScoreIn(evaluation, key) ==
    IF evaluation.scores # None /\ key \in DOMAIN evaluation.scores[1]
    THEN evaluation.scores[1][key]
    ELSE 0

\* C38: a grade result has a total if and only if at least one criterion was
\* scored, the total is the sum of the scores present, to one decimal, and a
\* result with some but not all criteria scored has its scores, its total
\* over them and its error together
C38_TotalOverScored ==
    \A t \in Threads :
        (Graded(t) /\ out[t].outcome = "ok") =>
            LET evaluation == EvaluationOf(t)
                expected == { EXPECTED_SCORE_KEYS[i] : i \in DOMAIN EXPECTED_SCORE_KEYS }
                scored == IF evaluation.scores = None THEN {}
                          ELSE DOMAIN evaluation.scores[1]
                usable == { key \in expected :
                                /\ ~JudgeOf(t).raises
                                /\ RawValueOf(t, key) # None
                                /\ RawValueOf(t, key)[1].kind \in
                                       {"number", "string", "bool", "nan"} }
            IN  /\ scored = usable
                /\ evaluation.total # None <=> scored # {}
                /\ evaluation.total # None =>
                       /\ evaluation.total[1] =
                              ScoreIn(evaluation, "accuracy") + ScoreIn(evaluation, "relevance")
                                  + ScoreIn(evaluation, "coherence")
                       /\ evaluation.total[1] % 10 = 0
                /\ (scored # {} /\ scored # expected) =>
                       /\ evaluation.scores # None
                       /\ evaluation.total # None
                       /\ evaluation.error # None

\* two of the three criteria scored, 1.0 and 0.8: the total is 1.8 and the
\* error names the missing one
C38_Witness ==
    /\ Graded(1) /\ out[1].outcome = "ok"
    /\ JudgeOf(1).reply.object = << <<"accuracy", Number(150)>>, <<"coherence", Number(85)>> >>
    /\ EvaluationOf(1).total = Some(180)
    /\ EvaluationOf(1).error = Some(<<"Missing scores for:", "relevance">>)

\* ---------------------------------------------------- NusModsClient.module
\* str.upper() on the module codes the callers write
Upper(s) == [i \in DOMAIN s |-> IF s[i] = "cs1010" THEN "CS1010" ELSE s[i]]

\* `value or default` on an optional string
OrDefault(value, default) ==
    IF value = None \/ value = Some("") THEN default ELSE value[1]

\* what a method of the client does: it raises error, or with no error
\* returns value, and leaves the instance as self
Result(self, error, value) ==
    [raised |-> error # "", error |-> error, value |-> value, self |-> self]

\* year_base, lines 18-20
year_base(self, acad_year) ==
    <<"https://api.nusmods.com/v2/", OrDefault(acad_year, self.default_acad_year)>>

\* normalise_code, lines 23-31
normalise_code(self, module_code) ==
    LET code == Upper(Strip(module_code))
    IN  IF code = <<>> THEN Result(self, "ValueError", <<>>) ELSE Result(self, "", code)

\* session.get(url) then raise_for_status() and json(): the request is
\* made, and the server is unreachable, answers with an error status, or
\* answers with json
Get(self, url, response) ==
    LET requested == [self EXCEPT !.session = Append(@, url)]
    IN  CASE response.status = "unreachable" -> Result(requested, "ConnectionError", <<>>)
          [] response.status = "error" -> Result(requested, "HTTPError", <<>>)
          [] OTHER -> Result(requested, "", response.json)

\* module, lines 34-54: line 42 looks the key up in self._module_cache
module(self, module_code, acad_year, response) ==
    LET normalised == normalise_code(self, module_code)
        code == normalised.value
        year == OrDefault(acad_year, self.default_acad_year)
        cache_key == <<year, code>>
        url == [base |-> year_base(self, Some(year)), path |-> "modules", code |-> code]
        fetched == Get(self, url, response)
        cached(instance) ==
            IF DictHas(instance.module_cache, cache_key)
            THEN Result(instance, "", DictGet(instance.module_cache, cache_key))
            ELSE Result(instance, "KeyError", <<>>)
    IN  IF normalised.raised THEN normalised
        \* the instance has no attribute _module_cache
        ELSE IF "_module_cache" \notin DOMAIN self THEN Result(self, "AttributeError", <<>>)
        ELSE IF ~DictHas(self._module_cache, cache_key)
             THEN IF fetched.raised THEN fetched
                  ELSE cached([fetched.self EXCEPT
                                  !.module_cache = DictSet(@, cache_key, fetched.value)])
             ELSE cached(self)

\* module_list, lines 57-72
module_list(self, acad_year, response) ==
    LET year == OrDefault(acad_year, self.default_acad_year)
        url == [base |-> year_base(self, Some(year)), path |-> "moduleList.json",
                code |-> <<>>]
        fetched == Get(self, url, response)
        cached(instance) == Result(instance, "", DictGet(instance.module_list_cache, year))
    IN  IF ~DictHas(self.module_list_cache, year)
        THEN IF fetched.raised THEN fetched
             ELSE cached([fetched.self EXCEPT
                             !.module_list_cache = DictSet(@, year, fetched.value)])
        ELSE cached(self)

\* the arguments the tools pass and the answers of the server
ModuleCodes == { <<"cs1010">>, <<"CS1010", " ">>, <<"MA2002">>, <<" ">>, <<>> }
AcadYears == { None, Some(""), Some("2025-2026"), Some("2024-2025") }
Responses ==
    { [status |-> "ok", json |-> "record1"], [status |-> "ok", json |-> "record2"],
      [status |-> "error", json |-> ""], [status |-> "unreachable", json |-> ""] }

\* a call of a method of the client by caller t: the record of the call,
\* what it returned or raised, and the instance after it
ClientCall(t, name, args, result) ==
    /\ pc[t] = "idle"
    /\ Len(result.self.session) <= MaxRequests
    /\ call' = [call EXCEPT ![t] = [NoCall EXCEPT !.op = name, !.args = args]]
    /\ out' = [out EXCEPT ![t] =
                   IF result.raised
                   THEN [NoOut EXCEPT !.outcome = "error", !.value = result.error]
                   ELSE [NoOut EXCEPT !.outcome = "ok", !.value = result.value]]
    /\ client' = result.self
    /\ UNCHANGED <<service, concurrent, ncalls, pc, state, running, ev>>

\* client.module(module_code, acad_year), as nusmods_module_overview calls it
Module(t, module_code, acad_year, response) ==
    ClientCall(t, "module", <<module_code, acad_year>>,
               module(client, module_code, acad_year, response))

\* client.module_list(acad_year)
ModuleList(t, acad_year, response) ==
    ClientCall(t, "module_list", <<acad_year>>, module_list(client, acad_year, response))

NextClient ==
    \E t \in {1}, acad_year \in AcadYears, response \in Responses :
        \/ \E module_code \in ModuleCodes : Module(t, module_code, acad_year, response)
        \/ ModuleList(t, acad_year, response)

SpecClient == InitFunctions /\ [][NextClient]_vars

\* the key of a call of module and the request it makes for it
ModuleKey(args) ==
    <<OrDefault(args[2], client.default_acad_year), Upper(Strip(args[1]))>>
ModuleUrl(args) ==
    [base |-> year_base(client, Some(ModuleKey(args)[1])), path |-> "modules",
     code |-> ModuleKey(args)[2]]

\* C39: a call of module with a module code that is not blank makes one
\* network request when its (academic year, normalised code) key is not yet
\* in the cache, and when the server answers with a record the call stores
\* it under the key and returns it; when the key is in the cache the call
\* returns the cached record and makes no request
C39_ModuleFetchedOnce ==
    [][\A t \in {1} :
          (call'[t].op = "module" /\ Strip(call'[t].args[1]) # <<>>) =>
              LET key == ModuleKey(call'[t].args)
              IN  IF DictHas(client.module_cache, key)
                  THEN /\ client' = client
                       /\ out'[t].outcome = "ok"
                       /\ out'[t].value = DictGet(client.module_cache, key)
                  ELSE /\ client'.session = Append(client.session, ModuleUrl(call'[t].args))
                       /\ \/ /\ out'[t].outcome = "error"
                             /\ out'[t].value \in { "ConnectionError", "HTTPError" }
                             /\ client'.module_cache = client.module_cache
                          \/ /\ out'[t].outcome = "ok"
                             /\ DictHas(client'.module_cache, key)
                             /\ out'[t].value = DictGet(client'.module_cache, key)]_vars

====
